---- MODULE Spec2Model ----
(***************************************************************************)
(* A model of the package "sessions" (rivo/sessions).                      *)
(*                                                                         *)
(* Part I   the key-scoped mutex registry (mutexes.go): the coordinator    *)
(*          goroutine, its three channels, the item map and the purge.     *)
(*                                                                         *)
(* Part II  the request lifecycle (Start, RegenerateID, Destroy), the       *)
(*          write-through session cache and the persistence layer behind   *)
(*          it.  Every request handler takes the keyed lock of Part I.     *)
(*                                                                         *)
(* Time is a discrete clock "now".  One tick stands for half of            *)
(* mutexStaleMutexes (one hour in the source), so the purge timer, which   *)
(* sleeps mutexCleanupFrequency (ten minutes), fires several times within  *)
(* every tick: the timer purge may happen whenever the coordinator is      *)
(* ready to receive.                                                       *)
(***************************************************************************)
EXTENDS Integers, Sequences, FiniteSets, TLC

\* ------------------------------------------------------------------ bounds
NActors == 2           \* goroutines calling Lock / Unlock
MaxTime == 3           \* the clock stops here
MaxPurgeRequests == 1   \* purge goroutines of getItem blocked on m.purge
SubSecond == 2          \* instants per second that the encodings are given
MaxCompactSize == 2     \* the largest MaxSessionCacheSize of SpecCompact

\* ------------------------------------------------------- program constants
\* mutexStaleMutexes (one hour) in ticks.
mutexStaleMutexes == 2
\* mutexMaxCacheSize: more than there are keys by default (1024*1024), and
\* what TestMutexesSizePurge sets it to.
DefaultMutexCacheSize == 1000
TestMutexCacheSize == 1

Actors == 1..NActors
\* Session identifiers; they are the keys of the registry as well.  1 and 2 are
\* in use when the process starts, the others are what generateSesssionID
\* returns, one per request handler at most.
IDs == 1..(2 + NActors)
Keys == IDs
LockKeys == {1, 2}                 \* the keys the goroutines of Part I lock
Objs == 1..(Cardinality(Keys) + NActors + 1)   \* addresses of mutexItem values
NoItem == 0                        \* "not in the map" / nil

VARIABLES
    now,          \* time.Now(), in ticks
    items,        \* m.items: key -> address of its mutexItem, or NoItem
    locks,        \* mutexItem.locks, by address
    lastAccess,   \* mutexItem.lastAccess, by address
    coord,        \* where the main goroutine of newMutexes stands
    purgeReq,     \* goroutines spawned by getItem, blocked on m.purge <-
    pc,           \* where each calling goroutine stands
    key,          \* the key of its current Lock / Unlock
    ref,          \* the item whose release channel it receives from
    cfg,          \* the package variables of config.go
    sess,         \* the Session values, by address
    cache,        \* sessions.sessions: id -> address of the Session, or Nil
    store,        \* what the persistence layer holds: id -> saved session
    nextID,       \* the next identifier generateSesssionID returns
    timers,       \* the goroutines of RegenerateID sleeping the grace period
    timerDeletes, \* DeleteSession calls those goroutines made, by id
    req,          \* Start's arguments: the request and createIfNew
    ses,          \* Start's local variable "session"
    loc,          \* RegenerateID's local variables "oldID" and "id"
    out,          \* what Start returned
    cookies,      \* the Set-Cookie headers Start wrote to the response
    calls,        \* the persistence calls made on behalf of each Start
    login,        \* LogIn's arguments "user" (its ID) and "exclusive"
    logout,       \* LogOut's "sessionIDs" and how many of them it has visited
    cacheMu,      \* the sync.RWMutex of the cache: who holds it
    sessMu        \* the sync.RWMutex of each Session, by address

mutexMaxCacheSize == cfg.mutexMaxCacheSize

mvars == <<items, locks, lastAccess, coord, purgeReq>>
lvars == <<cacheMu, sessMu>>
uvars == <<login, logout, cacheMu, sessMu>>
svars == <<cfg, sess, cache, store, nextID, timers, timerDeletes,
           req, ses, loc, out, cookies, calls, login, logout, cacheMu, sessMu>>
vars == <<now, items, locks, lastAccess, coord, purgeReq, pc, key, ref,
          cfg, sess, cache, store, nextID, timers, timerDeletes,
          req, ses, loc, out, cookies, calls, login, logout, cacheMu, sessMu>>

\* The coordinator is in its select, or blocked in "item.release <- struct{}{}".
Selecting == [st |-> "select", obj |-> NoItem]
SendingAcq(o) == [st |-> "sendAcq", obj |-> o]
SendingRel(o) == [st |-> "sendRel", obj |-> o]

\* Addresses something still points to: the map, a goroutine blocked on the
\* item's channel, the coordinator.
Live(its, rf, cd) ==
    {its[k] : k \in Keys} \cup {rf[a] : a \in Actors} \cup {cd.obj}

\* Memory nobody points to is garbage; its content is forgotten.
Collect(f, its, rf, cd) ==
    [o \in Objs |-> IF o \in Live(its, rf, cd) THEN f[o] ELSE 0]

\* &mutexItem{...}: a fresh address.
NewObj ==
    CHOOSE o \in Objs : /\ o \notin Live(items, ref, coord)
                        /\ \A p \in Objs : p \notin Live(items, ref, coord) => o <= p

Size(its) == Cardinality({k \in Keys : its[k] # NoItem})

\* getItem(key): the item of the key, created if it is not in the map;
\* lastAccess is set; a purge is requested if the map became too big.
GetItemCreates(k) == items[k] = NoItem
GetItemObj(k) == IF GetItemCreates(k) THEN NewObj ELSE items[k]
GetItemItems(k) == [items EXCEPT ![k] = GetItemObj(k)]
GetItemLocks(k) == IF GetItemCreates(k) THEN [locks EXCEPT ![NewObj] = 0] ELSE locks
GetItemAccess(k) == [lastAccess EXCEPT ![GetItemObj(k)] = now]
GetItemSpawnsPurge(k) == GetItemCreates(k) /\ Size(GetItemItems(k)) > mutexMaxCacheSize
GetItemPurgeReq(k) == IF GetItemSpawnsPurge(k) THEN purgeReq + 1 ELSE purgeReq
GetItemAllowed(k) == GetItemSpawnsPurge(k) => purgeReq < MaxPurgeRequests


\* ======================================================================
\* Part II: sessions, cache, persistence
\* ======================================================================
Nil == 0                                  \* a nil *Session, an empty string
SObjs == 1..(Cardinality(IDs) + 2 * NActors)   \* addresses of Session values

\* What a request may carry as the session cookie besides an identifier.
\* Identifiers are positive.
NoCookie == 0        \* request.Cookie returns an error: the id stays ""
BadCookie == -2      \* a cookie whose value is not 24 characters long
DeletedCookie == -1                       \* the value "deleted" deleteCookie sets

\* The package variables (config.go), durations in ticks.  The defaults:
\* SessionExpiry math.MaxInt64, SessionIDExpiry one hour, SessionCacheExpiry
\* one hour, AcceptRemoteIP 1, AcceptChangingUserAgent false; the grace period
\* is one tick; the cache size is what the program was configured with.
\* Persistence is the layer in use: one whose calls succeed (as
\* ExtendablePersistenceLayer without callbacks), or one whose calls may
\* return an error.
Forever == 1000
CacheSizes == {-1, 1}
Expiries == {0, MaxTime, Forever}
Configs ==
    {[MaxSessionCacheSize |-> n,
      SessionExpiry |-> e,
      SessionIDExpiry |-> 2,
      SessionIDGracePeriod |-> 1,
      SessionCacheExpiry |-> 2,
      AcceptRemoteIP |-> k,
      AcceptChangingUserAgent |-> FALSE,
      Persistence |-> p,
      UserSessionsFunc |-> f,
      mutexMaxCacheSize |-> m] : n \in CacheSizes \cup {0},
                                 e \in Expiries,
                                 k \in 1..5,
                                 p \in {"reliable", "failing"},
                                 f \in BOOLEAN,
                                 m \in {DefaultMutexCacheSize, TestMutexCacheSize}}

MaxSessionCacheSize == cfg.MaxSessionCacheSize
SessionExpiry == cfg.SessionExpiry
SessionIDExpiry == cfg.SessionIDExpiry
SessionIDGracePeriod == cfg.SessionIDGracePeriod
SessionCacheExpiry == cfg.SessionCacheExpiry
AcceptRemoteIP == cfg.AcceptRemoteIP
AcceptChangingUserAgent == cfg.AcceptChangingUserAgent

\* Strings are sequences of characters; a remote address "a.b.c.d:80".
DigitChars == <<"0", "1", "2", "3", "4", "5", "6", "7", "8", "9">>
IsDigit(ch) == \E n \in 1..10 : DigitChars[n] = ch
RECURSIVE Dec(_)
Dec(n) == IF n < 10 THEN <<DigitChars[n + 1]>>
          ELSE Dec(n \div 10) \o <<DigitChars[(n % 10) + 1]>>
IPv4(a, b, c, d) ==
    Dec(a) \o <<".">> \o Dec(b) \o <<".">> \o Dec(c) \o <<".">> \o Dec(d) \o <<":", "8", "0">>
NoAddr == <<>>

\* request.RemoteAddr and the hash of the User-Agent header (0: no header).
RemoteAddrs == {IPv4(10, 0, 0, 1)}
AgentHashes == {0, 1}

\* The fields of a Session; "user" is the ID of the user logged in, or Nil.
Session(id, created, la, ip, ua, rf, data) ==
    [id |-> id, created |-> created, lastAccess |-> la, lastIP |-> ip,
     lastUserAgentHash |-> ua, referenceID |-> rf, user |-> Nil, data |-> data]
Blank == Session(Nil, 0, 0, NoAddr, 0, Nil, "nil")

\* What the persistence layer keeps of a session: every field but the id,
\* of the user the ID.
Stored(r) ==
    [present |-> TRUE, created |-> r.created, lastAccess |-> r.lastAccess, lastIP |-> r.lastIP,
     lastUserAgentHash |-> r.lastUserAgentHash, referenceID |-> r.referenceID,
     user |-> r.user, data |-> r.data]
\* No value under an id of the store.
NotStored == [Stored(Blank) EXCEPT !.present = FALSE]
\* What LoadSession returns for a stored value; the id is not restored.
Loaded(v) ==
    [Session(Nil, v.created, v.lastAccess, v.lastIP, v.lastUserAgentHash,
             v.referenceID, v.data) EXCEPT !.user = v.user]

\* Addresses of sessions something still points to: the cache, a handler's
\* local variable, a returned session.
LiveS(ca, se, ou) ==
    {ca[i] : i \in IDs} \cup {se[a] : a \in Actors} \cup {ou[a].session : a \in Actors}
CollectS(h, ca, se, ou) ==
    [o \in SObjs |-> IF o \in LiveS(ca, se, ou) THEN h[o] ELSE Blank]
\* &Session{...}: a fresh address.
NewSess ==
    CHOOSE o \in SObjs : /\ o \notin LiveS(cache, ses, out)
                         /\ \A p \in SObjs : p \notin LiveS(cache, ses, out) => o <= p

\* Start's results "(session, err)"; NotReturned until the return statement.
NotReturned == [session |-> Nil, err |-> ""]
Returned(s, e) == [session |-> s, err |-> e]
NoRequest == [cookie |-> NoCookie, ua |-> 0, ip |-> NoAddr, create |-> FALSE, at |-> 0]
\* No LogIn / LogOut called by a handler.
NoLogIn == [user |-> Nil, exclusive |-> FALSE]
NoLogOut == [sessionIDs |-> <<>>, visited |-> 0]
\* A sync.RWMutex: the goroutine that holds it for writing, or Nil, and those
\* that hold it for reading.
Unlocked == [w |-> Nil, r |-> {}]

\* ------------------------------------------------------- persistence
\* The state the cache operations work on: the cache map, the store behind
\* the persistence layer, the calls the running handler has made, and the
\* error of the last call ("": nil).
\* A call: the operation, the id, the referenceID of a saved session, the
\* function of the cache that made it, and the error it returned.
Call(op, id, rf, from) == [op |-> op, id |-> id, ref |-> rf, from |-> from, err |-> ""]

\* What a call of the persistence layer may return.
PersistenceErrors ==
    IF cfg.Persistence = "failing" THEN {"", "persistence error"} ELSE {""}

\* A call that returned an error: nothing was stored or deleted.
Failed(cs, call, e) ==
    [cs EXCEPT !.calls = Append(@, [call EXCEPT !.err = e]), !.err = e]

\* Persistence.SaveSession(id, session): an upsert of the encoded session.
SaveSession(cs, h, id, o, from) ==
    {IF e = ""
        THEN [cs EXCEPT !.store = [@ EXCEPT ![id] = Stored(h[o])],
                        !.calls = Append(@, Call("save", id, h[o].referenceID, from)),
                        !.err = ""]
        ELSE Failed(cs, Call("save", id, h[o].referenceID, from), e)
     : e \in PersistenceErrors}

\* Persistence.DeleteSession(id); deleting an absent id is no error.
DeleteSession(cs, id) ==
    {IF e = ""
        THEN [cs EXCEPT !.store = [@ EXCEPT ![id] = NotStored],
                        !.calls = Append(@, Call("delete", id, Nil, "Delete")),
                        !.err = ""]
        ELSE Failed(cs, Call("delete", id, Nil, "Delete"), e)
     : e \in PersistenceErrors}

\* Persistence.LoadSession(id): the call; the session it returns without
\* error is Loaded(cs.store[id]), or nil.
LoadSession(cs, id) ==
    {IF e = ""
        THEN [cs EXCEPT !.calls = Append(@, Call("load", id, Nil, "Get")), !.err = ""]
        ELSE Failed(cs, Call("load", id, Nil, "Get"), e)
     : e \in PersistenceErrors}

\* ------------------------------------------------------------- cache
Cached(cs) == {i \in IDs : cs.cache[i] # Nil}
CacheLen(cs) == Cardinality(Cached(cs))

\* All orders in which a range over a map may visit the keys in S.
Orders(S) ==
    {q \in [1..Cardinality(S) -> S] : \A i, j \in 1..Cardinality(S) : i # j => q[i] # q[j]}

\* A session leaves the cache: it is saved, then deleted from the map; if
\* the save fails, compact returns the error and the session stays.
Drop(cs, h, i) ==
    {IF c.err = "" THEN [c EXCEPT !.cache = [@ EXCEPT ![i] = Nil]] ELSE c
     : c \in SaveSession(cs, h, i, cs.cache[i], "compact")}

RECURSIVE DropAll(_, _, _)
DropAll(order, cs, h) ==
    IF order = <<>> \/ cs.err # "" THEN {cs}
    ELSE UNION {DropAll(Tail(order), c, h) : c \in Drop(cs, h, Head(order))}

\* compact, first loop: the sessions not accessed for SessionCacheExpiry.
CompactIdle(cs, h) ==
    LET idle == {i \in Cached(cs) : now - h[cs.cache[i]].lastAccess > SessionCacheExpiry}
    IN UNION {DropAll(order, cs, h) : order \in Orders(idle)}

OldestAny(cs, h) == Cached(cs)
\* compact, second loop: the session found by the inner range, the first one
\* visited among those with the least lastAccess.
Oldest(cs, h) ==
    {i \in Cached(cs) :
        \A j \in Cached(cs) : h[cs.cache[i]].lastAccess <= h[cs.cache[j]].lastAccess}

RECURSIVE DropOldest(_, _, _)
DropOldest(cs, h, requiredSpace) ==
    IF cs.err = "" /\ CacheLen(cs) + requiredSpace > MaxSessionCacheSize
       THEN UNION {DropOldest(c, h, requiredSpace) : c \in UNION {Drop(cs, h, i) : i \in Oldest(cs, h)}}
       ELSE {cs}

\* cache.compact(requiredSpace): the states it may leave, "err" what it returns.
compact(cs, h, requiredSpace) ==
    UNION {IF \/ c1.err # ""
              \/ MaxSessionCacheSize < 0
              \/ CacheLen(c1) + requiredSpace <= MaxSessionCacheSize
              THEN {c1}
              ELSE DropOldest(c1, h, IF requiredSpace > MaxSessionCacheSize
                                        THEN MaxSessionCacheSize ELSE requiredSpace)
           : c1 \in CompactIdle([cs EXCEPT !.err = ""], h)}

\* "c.sessions[id] = session" unless the cache is switched off.
InsertAlways(cs, id, o) == [cs EXCEPT !.cache = [@ EXCEPT ![id] = o]]
Insert(cs, id, o) ==
    IF MaxSessionCacheSize # 0 THEN [cs EXCEPT !.cache = [@ EXCEPT ![id] = o]] ELSE cs

\* cache.Set(session): "h" is the heap after Set stamped lastAccess.  What
\* compact returns is dropped; Set returns nil whatever SaveSession returned.
SetStampNever(h, o) == h
SetStamp(h, o) == [h EXCEPT ![o].lastAccess = now]
CacheSet(cs, h, o) ==
    LET id == h[o].id
        requiredSpace == IF cs.cache[id] = Nil THEN 1 ELSE 0
    IN UNION {{[c3 EXCEPT !.err = ""] : c3 \in SaveSession(Insert(c2, id, o), h, id, o, "Set")}
              : c2 \in compact(cs, h, requiredSpace)}

\* cache.Get(id), uninterrupted: [cs, h, session] for every way it may end,
\* cs.err the error it returns.
CacheGet(cs, h, id) ==
    IF cs.cache[id] # Nil
       THEN {[cs |-> [cs EXCEPT !.err = ""], h |-> h, session |-> cs.cache[id]]}
    ELSE UNION {
       IF c1.err # "" \/ ~cs.store[id].present
          THEN {[cs |-> c1, h |-> h, session |-> Nil]}
       ELSE LET o == NewSess
                h1 == [h EXCEPT ![o] = Loaded(cs.store[id])]
                h2 == [h1 EXCEPT ![o].id = id]
            IN IF MaxSessionCacheSize # 0
                  THEN {[cs |-> [Insert(c2, id, o) EXCEPT !.err = ""], h |-> h2, session |-> o]
                        : c2 \in compact(c1, h1, 1)}
                  ELSE {[cs |-> c1, h |-> h2, session |-> o]}
       : c1 \in LoadSession(cs, id)}

\* cache.Delete(id): cs.err is the error it returns.
CacheDeleteKeepsStore(cs, id) == {[cs EXCEPT !.cache = [@ EXCEPT ![id] = Nil], !.err = ""]}
CacheDelete(cs, id) ==
    DeleteSession([cs EXCEPT !.cache = [@ EXCEPT ![id] = Nil]], id)

\* The state a handler's cache operation starts from.
CS(a) == [cache |-> cache, store |-> store, calls |-> calls[a], err |-> ""]

TypeOK ==
    /\ now \in 0..MaxTime
    /\ items \in [Keys -> Objs \cup {NoItem}]
    /\ locks \in [Objs -> Int]
    /\ lastAccess \in [Objs -> 0..MaxTime]
    /\ cfg \in Configs
    /\ cache \in [IDs -> SObjs \cup {Nil}]
    /\ nextID \in 3..(Cardinality(IDs) + 1)
    /\ ses \in [Actors -> SObjs \cup {Nil}]
    /\ coord.st \in {"select", "sendAcq", "sendRel"}
    /\ purgeReq \in 0..MaxPurgeRequests
    /\ pc \in [Actors -> {"idle", "acqSend", "getItem", "recv", "held", "check", "regen1",
                        "regen2", "follow", "touch", "create", "unlock", "done",
                        "getCompact", "getInsert", "fatal",
                        "getLookup", "getSessLock", "getStoreID", "setSessLock",
                        "setStamp", "setCompact", "setSaveLock", "setSave",
                        "logout", "logoutSet", "loggedOut", "login", "panic"}]
    /\ key \in [Actors -> Keys]
    /\ ref \in [Actors -> Objs \cup {NoItem}]

Init ==
    /\ now = 0
    /\ items = [k \in Keys |-> NoItem]
    /\ locks = [o \in Objs |-> 0]
    /\ lastAccess = [o \in Objs |-> 0]
    /\ coord = Selecting
    /\ purgeReq = 0
    /\ pc = [a \in Actors |-> "idle"]
    /\ key = [a \in Actors |-> 1]
    /\ ref = [a \in Actors |-> NoItem]
    /\ login = [a \in Actors |-> NoLogIn]
    /\ logout = [a \in Actors |-> NoLogOut]
    /\ cacheMu = Unlocked
    /\ sessMu = [o \in SObjs |-> Unlocked]
    /\ cfg \in {c \in Configs : /\ c.SessionExpiry = Forever
                                /\ c.MaxSessionCacheSize = -1
                                /\ c.AcceptRemoteIP = 1
                                /\ c.Persistence = "reliable"
                                /\ c.UserSessionsFunc
                                /\ c.mutexMaxCacheSize = TestMutexCacheSize}
    /\ sess = [o \in SObjs |-> Blank]
    /\ cache = [i \in IDs |-> Nil]
    /\ store = [i \in IDs |-> NotStored]
    /\ nextID = 3
    /\ timers = {}
    /\ timerDeletes = [i \in IDs |-> 0]
    /\ req = [a \in Actors |-> NoRequest]
    /\ ses = [a \in Actors |-> Nil]
    /\ loc = [a \in Actors |-> [oldID |-> Nil, id |-> Nil]]
    /\ out = [a \in Actors |-> NotReturned]
    /\ cookies = [a \in Actors |-> <<>>]
    /\ calls = [a \in Actors |-> <<>>]

\* ------------------------------------------------------------ Lock(key)
\* A goroutine calls Lock(k) and blocks in "m.acquire <- key".
CallLock(a, k) ==
    /\ pc[a] = "idle"
    /\ pc' = [pc EXCEPT ![a] = "acqSend"]
    /\ key' = [key EXCEPT ![a] = k]
    /\ UNCHANGED <<now, items, locks, lastAccess, coord, purgeReq, ref>>
    /\ UNCHANGED svars

\* AcquireCase with one count for all keys: the token is offered only when no
\* key at all is locked.
AcquireCaseAnyKey(a) ==
    /\ coord = Selecting
    /\ pc[a] = "acqSend"
    /\ GetItemAllowed(key[a])
    /\ LET k == key[a]
           o == GetItemObj(k)
           lk == GetItemLocks(k)
       IN /\ items' = GetItemItems(k)
          /\ lastAccess' = GetItemAccess(k)
          /\ purgeReq' = GetItemPurgeReq(k)
          /\ IF \A p \in Objs : lk[p] = 0
                THEN /\ coord' = SendingAcq(o)
                     /\ locks' = lk
                ELSE /\ coord' = Selecting
                     /\ locks' = [lk EXCEPT ![o] = @ + 1]
    /\ pc' = [pc EXCEPT ![a] = "getItem"]
    /\ UNCHANGED <<now, key, ref>>
    /\ UNCHANGED svars

\* "case key := <-m.acquire": the coordinator takes the key of goroutine a,
\* gets the item and either starts to send on its channel (locks == 0, the
\* count is raised once the send is through) or raises the count.
AcquireCase(a) ==
    /\ coord = Selecting
    /\ pc[a] = "acqSend"
    /\ GetItemAllowed(key[a])
    /\ LET k == key[a]
           o == GetItemObj(k)
           lk == GetItemLocks(k)
       IN /\ items' = GetItemItems(k)
          /\ lastAccess' = GetItemAccess(k)
          /\ purgeReq' = GetItemPurgeReq(k)
          /\ IF lk[o] = 0
                THEN /\ coord' = SendingAcq(o)
                     /\ locks' = lk
                ELSE /\ coord' = Selecting
                     /\ locks' = [lk EXCEPT ![o] = @ + 1]
    /\ pc' = [pc EXCEPT ![a] = "getItem"]
    /\ UNCHANGED <<now, key, ref>>
    /\ UNCHANGED svars

\* "m.getItem(key).release" in Lock: the goroutine looks its item up (creating
\* it if a purge removed it meanwhile) and blocks receiving from its channel.
LockGetItem(a) ==
    /\ pc[a] = "getItem"
    /\ GetItemAllowed(key[a])
    /\ items' = GetItemItems(key[a])
    /\ locks' = GetItemLocks(key[a])
    /\ lastAccess' = GetItemAccess(key[a])
    /\ purgeReq' = GetItemPurgeReq(key[a])
    /\ ref' = [ref EXCEPT ![a] = GetItemObj(key[a])]
    /\ pc' = [pc EXCEPT ![a] = "recv"]
    /\ UNCHANGED <<now, coord, key>>
    /\ UNCHANGED svars

\* The rendezvous on item.release: the coordinator's send meets the receive of
\* one goroutine blocked on that channel; Lock returns.
Handoff(a) ==
    /\ coord.st \in {"sendAcq", "sendRel"}
    /\ pc[a] = "recv"
    /\ ref[a] = coord.obj
    /\ LET rf == [ref EXCEPT ![a] = NoItem]
           lk == IF coord.st = "sendAcq"
                    THEN [locks EXCEPT ![coord.obj] = @ + 1]
                    ELSE locks
       IN /\ ref' = rf
          /\ coord' = Selecting
          /\ locks' = Collect(lk, items, rf, Selecting)
          /\ lastAccess' = Collect(lastAccess, items, rf, Selecting)
    /\ pc' = [pc EXCEPT ![a] = "held"]
    /\ UNCHANGED <<now, items, purgeReq, key>>
    /\ UNCHANGED svars

\* The count of the key's entry; a key without entry counts 0.
HolderCount(k) == IF items[k] = NoItem THEN 0 ELSE locks[items[k]]

\* ---------------------------------------------------------- Unlock(key)
\* ReleaseCase without the test "if item.locks > 0".
ReleaseCaseUnchecked(k) ==
    /\ coord = Selecting
    /\ GetItemAllowed(k)
    /\ LET o == GetItemObj(k)
           lk == GetItemLocks(k)
       IN /\ items' = GetItemItems(k)
          /\ lastAccess' = GetItemAccess(k)
          /\ purgeReq' = GetItemPurgeReq(k)
          /\ locks' = [lk EXCEPT ![o] = @ - 1]
          /\ coord' = IF lk[o] - 1 > 0 THEN SendingRel(o) ELSE Selecting

\* "case key := <-m.release", for the key k sent by an Unlock(k).
ReleaseCase(k) ==
    /\ coord = Selecting
    /\ GetItemAllowed(k)
    /\ LET o == GetItemObj(k)
           lk == GetItemLocks(k)
       IN /\ items' = GetItemItems(k)
          /\ lastAccess' = GetItemAccess(k)
          /\ purgeReq' = GetItemPurgeReq(k)
          /\ IF lk[o] > 0
                THEN /\ locks' = [lk EXCEPT ![o] = @ - 1]
                     /\ coord' = IF lk[o] - 1 > 0 THEN SendingRel(o) ELSE Selecting
                ELSE /\ locks' = lk
                     /\ coord' = Selecting

\* The holder calls Unlock(key): "m.release <- key" meets the coordinator.
Unlock(a) ==
    /\ pc[a] = "held"
    /\ ReleaseCase(key[a])
    /\ pc' = [pc EXCEPT ![a] = "idle"]
    /\ UNCHANGED <<now, key, ref>>
    /\ UNCHANGED svars

\* An Unlock(k) that matches no Lock, on a key whose count is 0 (never locked,
\* or released already).
DoubleUnlock(k) ==
    /\ HolderCount(k) = 0
    /\ ReleaseCase(k)
    /\ UNCHANGED <<now, pc, key, ref>>
    /\ UNCHANGED svars

\* ---------------------------------------------------------------- purge
\* The condition under which the purge loop deletes an entry, given the map as
\* it is when the loop reaches the entry.
PurgeDeletesStaleOnly(its, k) == now - lastAccess[its[k]] > mutexStaleMutexes
PurgeDeletes(its, k) ==
    \/ now - lastAccess[its[k]] > mutexStaleMutexes
    \/ Size(its) > mutexMaxCacheSize /\ locks[its[k]] = 0

\* "for key, item := range m.items" in the order the runtime picked.
RECURSIVE PurgeLoop(_, _)
PurgeLoop(order, its) ==
    IF order = <<>> THEN its
    ELSE LET k == Head(order)
         IN PurgeLoop(Tail(order),
                      IF PurgeDeletes(its, k) THEN [its EXCEPT ![k] = NoItem] ELSE its)

\* All orders in which a range over the map may visit its keys.
RangeOrders(its) ==
    LET ks == {k \in Keys : its[k] # NoItem}
    IN {s \in [1..Cardinality(ks) -> ks] : \A i, j \in 1..Cardinality(ks) : i # j => s[i] # s[j]}

\* "case <-m.purge".
PurgeCase ==
    /\ coord = Selecting
    /\ \E order \in RangeOrders(items) :
          LET its == PurgeLoop(order, items)
          IN /\ items' = its
             /\ locks' = Collect(locks, its, ref, coord)
             /\ lastAccess' = Collect(lastAccess, its, ref, coord)

\* The purge sent by the timer goroutine.
TimerPurge ==
    /\ PurgeCase
    /\ UNCHANGED <<now, coord, purgeReq, pc, key, ref>>
    /\ UNCHANGED svars

\* The purge sent by a goroutine that getItem spawned.
SizePurge ==
    /\ purgeReq > 0
    /\ PurgeCase
    /\ purgeReq' = purgeReq - 1
    /\ UNCHANGED <<now, coord, pc, key, ref>>
    /\ UNCHANGED svars

\* ----------------------------------------------------------------- time
\* The clock advances.  A goroutine whose sleep is over runs before it does,
\* and a tick (half an hour) passes only while every request handler is
\* outside its call, waits for its lock, or holds it (the time a handler
\* spends in its critical section, which the model puts at its beginning).
Tick ==
    /\ now < MaxTime
    /\ \A t \in timers : now < t.due
    /\ \A a \in Actors : pc[a] \in {"idle", "recv", "held", "done"}
    /\ now' = now + 1
    /\ UNCHANGED <<items, locks, lastAccess, coord, purgeReq, pc, key, ref>>
    /\ UNCHANGED svars

Next ==
    \/ \E a \in Actors, k \in LockKeys : CallLock(a, k)
    \/ \E a \in Actors : AcquireCase(a)
    \/ \E a \in Actors : LockGetItem(a)
    \/ \E a \in Actors : Handoff(a)
    \/ \E a \in Actors : Unlock(a)
    \/ \E k \in LockKeys : DoubleUnlock(k)
    \/ TimerPurge
    \/ SizePurge
    \/ Tick

Spec == Init /\ [][Next]_vars


\* ======================================================================
\* Part II: the request lifecycle
\* ======================================================================
\* The sessions a restarted process may find in the store.  Under id 1: a
\* primary session due for rotation, or the reference session a rotation to
\* id 2 left behind SessionIDExpiry ago (its timer died with the old
\* process).  Under id 2: the primary session it refers to, or nothing.
StoredPrimary(c, d) == Stored(Session(Nil, c, c, IPv4(10, 0, 0, 1), 0, Nil, d))
StoredShadow(c, rf) == Stored(Session(Nil, c, c, IPv4(10, 0, 0, 1), 0, rf, "nil"))
InitialStores ==
    {[i \in IDs |-> IF i = 1 THEN s[1] ELSE IF i = 2 THEN s[2] ELSE NotStored] :
        s \in {<<StoredPrimary(-2, "d1"), NotStored>>,
               <<StoredShadow(-2, 2), NotStored>>,
               <<StoredShadow(-2, 2), StoredPrimary(0, "d2")>>}}

InitMutexes ==
    /\ now = 0
    /\ items = [k \in Keys |-> NoItem]
    /\ locks = [o \in Objs |-> 0]
    /\ lastAccess = [o \in Objs |-> 0]
    /\ coord = Selecting
    /\ purgeReq = 0
    /\ pc = [a \in Actors |-> "idle"]
    /\ key = [a \in Actors |-> 1]
    /\ ref = [a \in Actors |-> NoItem]
    /\ login = [a \in Actors |-> NoLogIn]
    /\ logout = [a \in Actors |-> NoLogOut]
    /\ cacheMu = Unlocked
    /\ sessMu = [o \in SObjs |-> Unlocked]

\* initCache, and the package variables as the program set them.
InitStart ==
    /\ InitMutexes
    /\ cfg \in {c \in Configs : /\ c.SessionExpiry = Forever
                                /\ c.UserSessionsFunc
                                /\ c.mutexMaxCacheSize = DefaultMutexCacheSize
                                /\ c.MaxSessionCacheSize \in CacheSizes
                                /\ c.Persistence = "reliable"
                                /\ c.AcceptRemoteIP = 1}
    /\ sess = [o \in SObjs |-> Blank]
    /\ cache = [i \in IDs |-> Nil]
    /\ store \in InitialStores
    /\ nextID = 3
    /\ timers = {}
    /\ timerDeletes = [i \in IDs |-> 0]
    /\ req = [a \in Actors |-> NoRequest]
    /\ ses = [a \in Actors |-> Nil]
    /\ loc = [a \in Actors |-> [oldID |-> Nil, id |-> Nil]]
    /\ out = [a \in Actors |-> NotReturned]
    /\ cookies = [a \in Actors |-> <<>>]
    /\ calls = [a \in Actors |-> <<>>]

\* The identifiers a client can know: 1, 2 and those a response carried.
KnownIDs ==
    {1, 2} \cup {i \in IDs : \E b \in Actors :
                     /\ pc[b] = "done"
                     /\ \E n \in 1..Len(cookies[b]) : cookies[b][n] = i}
\* The requests a client can send now: without a usable cookie or with an
\* identifier it knows, and createIfNew.
Requests ==
    [cookie : {NoCookie, BadCookie} \cup KnownIDs,
     ua : AgentHashes, ip : RemoteAddrs, create : BOOLEAN, at : {now}]

HasID(cookie) == cookie \in IDs        \* len(id) == 24
Locked(a) == HasID(req[a].cookie)      \* Start took the keyed lock
\* Where a return statement of Start leads: to the deferred Unlock, if any.
AfterReturnNoUnlock(a) == "done"
AfterReturn(a) == IF Locked(a) THEN "unlock" ELSE "done"
\* Where "session == nil" leads at the end of Start.
NoSessionCreates(a) == "create"
NoSession(a) == IF req[a].create THEN "create" ELSE AfterReturn(a)

\* Start up to "sessionIDMutexes.Lock(id)".
StartBeginWith(a, r, createIfNew) ==
    /\ pc[a] = "idle"
    /\ \A b \in Actors : b < a => pc[b] # "idle"    \* handlers numbered as they start
    /\ req' = [req EXCEPT ![a] = r]
    /\ IF HasID(r.cookie)
          THEN /\ pc' = [pc EXCEPT ![a] = "acqSend"]
               /\ key' = [key EXCEPT ![a] = r.cookie]
          ELSE /\ pc' = [pc EXCEPT ![a] = IF createIfNew THEN "create" ELSE "done"]
               /\ key' = key
    /\ UNCHANGED <<now, ref, cfg, sess, cache, store, nextID, timers, timerDeletes,
                   ses, loc, out, cookies, calls>>
    /\ UNCHANGED mvars
    /\ UNCHANGED uvars

StartBeginCreates(a, r) == StartBeginWith(a, r, TRUE)
StartBegin(a, r) == StartBeginWith(a, r, r.create)

\* "session, err = sessions.Get(id)" and the deletion of the cookie of a
\* session that is not found.
StartGet(a) ==
    /\ pc[a] = "held"
    /\ login[a] = NoLogIn                  \* the lock is Start's, not LogIn's
    /\ \E g \in CacheGet(CS(a), sess, key[a]) :
          /\ cache' = g.cs.cache
          /\ store' = g.cs.store
          /\ calls' = [calls EXCEPT ![a] = g.cs.calls]
          /\ ses' = [ses EXCEPT ![a] = g.session]
          /\ IF g.cs.err # ""
                THEN /\ cookies' = cookies
                     /\ out' = [out EXCEPT ![a] =
                                   Returned(Nil, "Could not get session from cache")]
                     /\ pc' = [pc EXCEPT ![a] = "unlock"]
                ELSE IF g.session = Nil
                THEN /\ cookies' = [cookies EXCEPT ![a] = Append(@, DeletedCookie)]
                     /\ out' = out
                     /\ pc' = [pc EXCEPT ![a] = NoSession(a)]
                ELSE /\ cookies' = cookies
                     /\ out' = out
                     /\ pc' = [pc EXCEPT ![a] = "check"]
          /\ sess' = CollectS(g.h, cache', ses', out')
    /\ UNCHANGED <<now, key, ref, cfg, nextID, timers, timerDeletes, req, loc>>
    /\ UNCHANGED mvars
    /\ UNCHANGED uvars

\* s[from..to] is a non-empty run of digits: a match of "\d+".
DigitRun(s, from, to) == from <= to /\ \A i \in from..to : IsDigit(s[i])
\* The matches of `^(\d+).(\d+).(\d+).(\d+):\d+$` in s, each by the positions
\* where its four groups end; "." matches any character.
Matches(s) ==
    UNION {UNION {UNION {
        {<<e1, e2, e3, e4>> :
            e4 \in {e \in (e3 + 2)..(Len(s) - 2) :
                      /\ DigitRun(s, e3 + 2, e)
                      /\ s[e + 1] = ":"
                      /\ DigitRun(s, e + 2, Len(s))}}
        : e3 \in {e \in (e2 + 2)..Len(s) : DigitRun(s, e2 + 2, e)}}
        : e2 \in {e \in (e1 + 2)..Len(s) : DigitRun(s, e1 + 2, e)}}
        : e1 \in {e \in 1..Len(s) : DigitRun(s, 1, e)}}
\* The match the regexp package prefers: every group as long as possible,
\* the leftmost first.
Longer(e, f) ==
    \E i \in 1..4 : e[i] > f[i] /\ \A j \in 1..(i - 1) : e[j] = f[j]
\* ipFormat.FindStringSubmatch(s): the match and its four groups, or nil.
FindStringSubmatch(s) ==
    IF Matches(s) = {} THEN <<>>
    ELSE LET e == CHOOSE m \in Matches(s) : \A f \in Matches(s) : f = m \/ Longer(m, f)
         IN <<s, SubSeq(s, 1, e[1]), SubSeq(s, e[1] + 2, e[2]),
              SubSeq(s, e[2] + 2, e[3]), SubSeq(s, e[3] + 2, e[4])>>

\* "Has the remote IP changed too much?"
IPChanged(previous, current) ==
    /\ AcceptRemoteIP > 1
    /\ LET previousIP == FindStringSubmatch(previous)
           currentIP == FindStringSubmatch(current)
       IN /\ Len(previousIP) = 5 /\ Len(currentIP) = 5 /\ AcceptRemoteIP <= 4
          /\ \E i \in 1..(AcceptRemoteIP - 1) : previousIP[i + 1] # currentIP[i + 1]

\* "valid" as Start computes it for session s and the request of handler a.
Valid(a, s) ==
    /\ ~(now - sess[s].lastAccess >= SessionExpiry)
    /\ ~IPChanged(sess[s].lastIP, req[a].ip)
    /\ AcceptChangingUserAgent \/ sess[s].lastUserAgentHash = req[a].ua

\* The tests of "age" in Start.
DueForRotation(s, age) == sess[s].referenceID = Nil /\ age >= SessionIDExpiry
GraceExpiredNever(age) == FALSE
GraceExpired(age) == age >= SessionIDExpiry + SessionIDGracePeriod

\* Start from the snapshot of the session's fields to the decision what to
\* do with it: destroy it, regenerate its id, give it up as expired, follow
\* its reference, or use it.
StartCheck(a) ==
    /\ pc[a] = "check"
    /\ LET s == ses[a]
           age == now - sess[s].created
       IN IF ~Valid(a, s)
             THEN \* session.Destroy(response, request)
                  \E c \in CacheDelete(CS(a), sess[s].id) :
                     /\ cache' = c.cache
                     /\ store' = c.store
                     /\ calls' = [calls EXCEPT ![a] = c.calls]
                     /\ IF c.err # ""
                           THEN /\ cookies' = cookies
                                /\ ses' = ses
                                /\ out' = [out EXCEPT ![a] =
                                              Returned(Nil, "Could not destroy expired session")]
                                /\ pc' = [pc EXCEPT ![a] = "unlock"]
                           ELSE /\ cookies' = [cookies EXCEPT ![a] = Append(@, DeletedCookie)]
                                /\ ses' = [ses EXCEPT ![a] = Nil]
                                /\ out' = out
                                /\ pc' = [pc EXCEPT ![a] = NoSession(a)]
             ELSE IF DueForRotation(s, age)
             THEN /\ pc' = [pc EXCEPT ![a] = "regen1"]
                  /\ UNCHANGED <<cache, store, calls, cookies, ses, out>>
             ELSE IF GraceExpired(age)
             THEN \* sessions.Delete(id); return nil, "Session expired"
                  \E c \in CacheDelete(CS(a), key[a]) :
                     /\ cache' = c.cache
                     /\ store' = c.store
                     /\ calls' = [calls EXCEPT ![a] = c.calls]
                     /\ cookies' = cookies
                     /\ ses' = ses
                     /\ out' = [out EXCEPT ![a] =
                                   Returned(Nil, IF c.err # ""
                                                    THEN "Could not delete session with expired ID"
                                                    ELSE "Session expired")]
                     /\ pc' = [pc EXCEPT ![a] = "unlock"]
             ELSE /\ pc' = [pc EXCEPT ![a] = IF sess[s].referenceID # Nil
                                               THEN "follow" ELSE "touch"]
                  /\ UNCHANGED <<cache, store, calls, cookies, ses, out>>
    /\ sess' = CollectS(sess, cache', ses', out')
    /\ UNCHANGED <<now, key, ref, cfg, nextID, timers, timerDeletes, req, loc>>
    /\ UNCHANGED mvars
    /\ UNCHANGED uvars

\* RegenerateID up to "sessions.Set(s)": a new id, created = now, and the
\* session saved under the new id.
Regen1(a) ==
    /\ pc[a] = "regen1"
    /\ nextID \in IDs
    /\ LET s == ses[a]
           h == SetStamp([sess EXCEPT ![s].id = nextID, ![s].created = now], s)
       IN \E c \in CacheSet(CS(a), h, s) :
             /\ cache' = c.cache
             /\ store' = c.store
             /\ calls' = [calls EXCEPT ![a] = c.calls]
             /\ sess' = CollectS(h, cache', ses, out)
             /\ loc' = [loc EXCEPT ![a] = [oldID |-> sess[s].id, id |-> nextID]]
    /\ nextID' = nextID + 1
    /\ pc' = [pc EXCEPT ![a] = "regen2"]
    /\ UNCHANGED <<now, key, ref, cfg, timers, timerDeletes, req, ses, out, cookies>>
    /\ UNCHANGED mvars
    /\ UNCHANGED uvars

\* The rest of RegenerateID: the reference session saved under the old id,
\* the goroutine that deletes it after the grace period, the new cookie.
Regen2With(a, reference) ==
    /\ pc[a] = "regen2"
    /\ LET s == ses[a]
           r == NewSess
           h == SetStamp([sess EXCEPT ![r] =
                             Session(loc[a].oldID, sess[s].created, now - SessionIDExpiry,
                                     sess[s].lastIP, sess[s].lastUserAgentHash,
                                     reference, "nil")], r)
       IN \E c \in CacheSet(CS(a), h, r) :
             /\ cache' = c.cache
             /\ store' = c.store
             /\ calls' = [calls EXCEPT ![a] = c.calls]
             /\ sess' = CollectS(h, cache', ses, out)
    /\ timers' = timers \cup {[id |-> loc[a].oldID, due |-> now + SessionIDGracePeriod, by |-> a]}
    /\ cookies' = [cookies EXCEPT ![a] = Append(@, loc[a].id)]
    /\ pc' = [pc EXCEPT ![a] = IF login[a] # NoLogIn THEN "unlock" ELSE "touch"]
    /\ UNCHANGED <<now, key, ref, cfg, nextID, timerDeletes, req, ses, loc, out>>
    /\ UNCHANGED mvars
    /\ UNCHANGED uvars

Regen2NoReference(a) == Regen2With(a, Nil)
Regen2(a) == Regen2With(a, loc[a].id)

\* "If this is a reference session, get the original one."
FollowTo(a, rid) ==
    /\ pc[a] = "follow"
    /\    /\ cookies' = [cookies EXCEPT ![a] = Append(@, rid)]
          /\ \E g \in CacheGet(CS(a), sess, rid) :
                /\ cache' = g.cs.cache
                /\ store' = g.cs.store
                /\ calls' = [calls EXCEPT ![a] = g.cs.calls]
                /\ ses' = [ses EXCEPT ![a] = g.session]
                /\ IF g.session = Nil
                      THEN /\ out' = [out EXCEPT ![a] =
                                         Returned(Nil, IF g.cs.err # ""
                                                          THEN "Could not get referenced session"
                                                          ELSE "Reference session not found")]
                           /\ pc' = [pc EXCEPT ![a] = "unlock"]
                      ELSE /\ out' = out
                           /\ pc' = [pc EXCEPT ![a] = "touch"]
                /\ sess' = CollectS(g.h, cache', ses', out')
    /\ UNCHANGED <<now, key, ref, cfg, nextID, timers, timerDeletes, req, loc>>
    /\ UNCHANGED mvars
    /\ UNCHANGED uvars

FollowOwnID(a) == FollowTo(a, key[a])
Follow(a) == FollowTo(a, sess[ses[a]].referenceID)

\* "We have a valid session": the touch, and the return of the session.
Touch(a) ==
    /\ pc[a] = "touch"
    /\ LET s == ses[a]
       IN /\ sess' = [sess EXCEPT ![s].lastAccess = now,
                                   ![s].lastIP = req[a].ip,
                                   ![s].lastUserAgentHash = req[a].ua]
          /\ out' = [out EXCEPT ![a] = Returned(s, "")]
    /\ pc' = [pc EXCEPT ![a] = "unlock"]
    /\ UNCHANGED <<now, key, ref, cfg, cache, store, nextID, timers, timerDeletes,
                   req, ses, loc, cookies, calls>>
    /\ UNCHANGED mvars
    /\ UNCHANGED uvars

\* "if session == nil" at the end of Start, with createIfNew: a new session.
Create(a) ==
    /\ pc[a] = "create"
    /\ nextID \in IDs
    /\ LET o == NewSess
           h == SetStamp([sess EXCEPT ![o] =
                             Session(nextID, now, now, req[a].ip, req[a].ua, Nil, "empty")], o)
       IN \E c \in CacheSet(CS(a), h, o) :
             /\ cache' = c.cache
             /\ store' = c.store
             /\ calls' = [calls EXCEPT ![a] = c.calls]
             /\ ses' = [ses EXCEPT ![a] = o]
             /\ out' = [out EXCEPT ![a] = Returned(o, "")]
             /\ sess' = CollectS(h, cache', ses', out')
    /\ cookies' = [cookies EXCEPT ![a] = Append(@, nextID)]
    /\ nextID' = nextID + 1
    /\ pc' = [pc EXCEPT ![a] = AfterReturn(a)]
    /\ UNCHANGED <<now, key, ref, cfg, timers, timerDeletes, req, loc>>
    /\ UNCHANGED mvars
    /\ UNCHANGED uvars


\* "defer sessionIDMutexes.Unlock(id)": Start returns once the coordinator
\* took the key.
StartUnlock(a) ==
    /\ pc[a] = "unlock"
    /\ ReleaseCase(key[a])
    /\ pc' = [pc EXCEPT ![a] = "done"]
    /\ UNCHANGED <<now, key, ref>>
    /\ UNCHANGED svars

\* The goroutine of RegenerateID: "time.Sleep(SessionIDGracePeriod);
\* sessions.Delete(oldID)".
TimerDelete(t) ==
    /\ t \in timers
    /\ now >= t.due
    /\ \E c \in CacheDelete([cache |-> cache, store |-> store, calls |-> <<>>, err |-> ""], t.id) :
          /\ cache' = c.cache
          /\ store' = c.store
    /\ sess' = CollectS(sess, cache', ses, out)
    /\ timers' = timers \ {t}
    /\ timerDeletes' = [timerDeletes EXCEPT ![t.id] = @ + 1]
    /\ UNCHANGED <<now, pc, key, ref, cfg, nextID, req, ses, loc, out, cookies, calls>>
    /\ UNCHANGED mvars
    /\ UNCHANGED uvars

NextStart ==
    \/ \E a \in Actors : \E r \in Requests : StartBegin(a, r)
    \/ \E a \in Actors : AcquireCase(a)
    \/ \E a \in Actors : LockGetItem(a)
    \/ \E a \in Actors : Handoff(a)
    \/ \E a \in Actors : StartGet(a)
    \/ \E a \in Actors : StartCheck(a)
    \/ \E a \in Actors : Regen1(a)
    \/ \E a \in Actors : Regen2(a)
    \/ \E a \in Actors : Follow(a)
    \/ \E a \in Actors : Touch(a)
    \/ \E a \in Actors : Create(a)
    \/ \E a \in Actors : StartUnlock(a)
    \/ \E t \in timers : TimerDelete(t)
    \/ TimerPurge
    \/ Tick

SpecStart == InitStart /\ [][NextStart]_vars

\* ---------------------------------------------------- inactivity expiry
\* A process with a finite SessionExpiry, with an unlimited cache or none,
\* and in the store one session that was created and last saved at time 0.
InitExpiry ==
    /\ InitMutexes
    /\ cfg \in {c \in Configs : /\ c.SessionExpiry # Forever
                                /\ c.UserSessionsFunc
                                /\ c.mutexMaxCacheSize = DefaultMutexCacheSize
                                /\ c.MaxSessionCacheSize \in {-1, 0}
                                /\ c.Persistence = "reliable"
                                /\ c.AcceptRemoteIP = 1}
    /\ sess = [o \in SObjs |-> Blank]
    /\ cache = [i \in IDs |-> Nil]
    /\ store = [i \in IDs |-> IF i = 1 THEN StoredPrimary(0, "d1") ELSE NotStored]
    /\ nextID = 3
    /\ timers = {}
    /\ timerDeletes = [i \in IDs |-> 0]
    /\ req = [a \in Actors |-> NoRequest]
    /\ ses = [a \in Actors |-> Nil]
    /\ loc = [a \in Actors |-> [oldID |-> Nil, id |-> Nil]]
    /\ out = [a \in Actors |-> NotReturned]
    /\ cookies = [a \in Actors |-> <<>>]
    /\ calls = [a \in Actors |-> <<>>]

SpecExpiry == InitExpiry /\ [][NextStart]_vars

\* ------------------------------------------------ the remote address check
\* Remote addresses as a request or a stored session may carry them:
\* "a.b.c.d:port" with one octet or the port changed or with a leading zero,
\* the same digits with other separators, an IPv6 address, an address
\* without port, the empty string.
Addresses ==
    {<<"1", ".", "1", ".", "1", ".", "1", ":", "1">>,
     <<"2", ".", "1", ".", "1", ".", "1", ":", "1">>,
     <<"1", ".", "2", ".", "1", ".", "1", ":", "1">>,
     <<"1", ".", "1", ".", "2", ".", "1", ":", "1">>,
     <<"1", ".", "1", ".", "1", ".", "2", ":", "1">>,
     <<"1", ".", "1", ".", "1", ".", "1", ":", "2">>,
     <<"0", "1", ".", "1", ".", "1", ".", "1", ":", "1">>,
     <<"1", "x", "1", "x", "1", "x", "1", ":", "1">>,
     <<"2", "x", "1", "x", "1", "x", "1", ":", "1">>,
     <<"[", ":", ":", "1", "]", ":", "1">>,
     <<"1", ".", "1", ".", "1", ".", "1">>,
     NoAddr}

\* One session under id 1, last used from any of the addresses, and any
\* setting of AcceptRemoteIP.
InitIP ==
    /\ InitMutexes
    /\ cfg \in {c \in Configs : /\ c.SessionExpiry = Forever
                                /\ c.UserSessionsFunc
                                /\ c.mutexMaxCacheSize = DefaultMutexCacheSize
                                /\ c.Persistence = "reliable"
                                /\ c.MaxSessionCacheSize = -1}
    /\ sess = [o \in SObjs |-> Blank]
    /\ cache = [i \in IDs |-> Nil]
    /\ store \in {[i \in IDs |-> IF i = 1 THEN Stored(Session(Nil, 0, 0, ip, 0, Nil, "d1"))
                                  ELSE NotStored] : ip \in Addresses}
    /\ nextID = 3
    /\ timers = {}
    /\ timerDeletes = [i \in IDs |-> 0]
    /\ req = [a \in Actors |-> NoRequest]
    /\ ses = [a \in Actors |-> Nil]
    /\ loc = [a \in Actors |-> [oldID |-> Nil, id |-> Nil]]
    /\ out = [a \in Actors |-> NotReturned]
    /\ cookies = [a \in Actors |-> <<>>]
    /\ calls = [a \in Actors |-> <<>>]

\* A request with the cookie of that session from any of the addresses.
RequestsIP ==
    [cookie : {1}, ua : {0}, ip : Addresses, create : {FALSE}, at : {now}]

NextIP ==
    \/ \E r \in RequestsIP : StartBegin(1, r)
    \/ AcquireCase(1)
    \/ LockGetItem(1)
    \/ Handoff(1)
    \/ StartGet(1)
    \/ StartCheck(1)
    \/ Touch(1)
    \/ StartUnlock(1)

SpecIP == InitIP /\ [][NextIP]_vars

\* ------------------------------------------------- the cache on its own
\* Goroutines call Get, Set and Delete of the cache directly, as Session.Set,
\* Session.Delete, LogOut and RefreshUser do.  Set and Delete hold the write
\* lock of the cache; Get holds the read lock, which other calls of Get share.
CachedIDs == {1, 2}

\* Two sessions stored at time 0, an empty cache of any size (0: the cache is
\* switched off, -1: it is unbounded), and either persistence layer; the calls are made right away or MaxTime later,
\* when a session loaded from the store has been idle for longer than
\* SessionCacheExpiry.
InitCache ==
    /\ now \in {0, MaxTime}
    /\ items = [k \in Keys |-> NoItem]
    /\ locks = [o \in Objs |-> 0]
    /\ lastAccess = [o \in Objs |-> 0]
    /\ coord = Selecting
    /\ purgeReq = 0
    /\ pc = [a \in Actors |-> "idle"]
    /\ key = [a \in Actors |-> 1]
    /\ ref = [a \in Actors |-> NoItem]
    /\ login = [a \in Actors |-> NoLogIn]
    /\ logout = [a \in Actors |-> NoLogOut]
    /\ cacheMu = Unlocked
    /\ sessMu = [o \in SObjs |-> Unlocked]
    /\ cfg \in {c \in Configs : /\ c.SessionExpiry = Forever
                                /\ c.UserSessionsFunc
                                /\ c.mutexMaxCacheSize = DefaultMutexCacheSize
                                /\ c.AcceptRemoteIP = 1}
    /\ sess = [o \in SObjs |-> Blank]
    /\ cache = [i \in IDs |-> Nil]
    /\ store = [i \in IDs |-> IF i \in CachedIDs
                                  THEN Stored(Session(Nil, 0, 0, NoAddr, 0, Nil, "d1"))
                                  ELSE NotStored]
    /\ nextID = 3
    /\ timers = {}
    /\ timerDeletes = [i \in IDs |-> 0]
    /\ req = [a \in Actors |-> NoRequest]
    /\ ses = [a \in Actors |-> Nil]
    /\ loc = [a \in Actors |-> [oldID |-> Nil, id |-> Nil]]
    /\ out = [a \in Actors |-> NotReturned]
    /\ cookies = [a \in Actors |-> <<>>]
    /\ calls = [a \in Actors |-> <<>>]

\* Somebody holds the read lock of the cache.
Reading(a) == pc[a] \in {"getCompact", "getInsert"}
\* The state a call of the cache starts from.
CS0(a) == [CS(a) EXCEPT !.calls = <<>>]
\* What a call returned, the calls it made and its argument are kept until
\* the next call starts: "f" with "v" for the caller and "blank" for those
\* that are not in a call.
Started(f, a, v, blank) ==
    [b \in Actors |-> IF b = a THEN v ELSE IF pc[b] = "idle" THEN blank ELSE f[b]]
NoLocals == [oldID |-> Nil, id |-> Nil]

\* cache.Get(id) up to "c.compact(1)": the lookup and, on a miss, LoadSession.
GetLoad(a, id) ==
    /\ pc[a] = "idle"
    /\ loc' = Started(loc, a, [oldID |-> Nil, id |-> id], NoLocals)
    /\ IF cache[id] # Nil
          THEN /\ ses' = [ses EXCEPT ![a] = cache[id]]
               /\ out' = Started(out, a, Returned(cache[id], ""), NotReturned)
               /\ calls' = Started(calls, a, <<>>, <<>>)
               /\ sess' = CollectS(sess, cache, ses', out')
               /\ pc' = pc
          ELSE \E c1 \in LoadSession(CS0(a), id) :
               /\ calls' = Started(calls, a, c1.calls, <<>>)
               /\ IF c1.err # "" \/ ~store[id].present
                     THEN /\ ses' = [ses EXCEPT ![a] = Nil]
                          /\ out' = Started(out, a, Returned(Nil, c1.err), NotReturned)
                          /\ sess' = CollectS(sess, cache, ses', out')
                          /\ pc' = pc
                     ELSE LET o == NewSess
                          IN /\ ses' = [ses EXCEPT ![a] = o]
                             /\ out' = Started(out, a, NotReturned, NotReturned)
                             /\ sess' = CollectS([sess EXCEPT ![o] = Loaded(store[id])],
                                                 cache, ses', out')
                             /\ pc' = [pc EXCEPT ![a] = IF MaxSessionCacheSize # 0
                                                           THEN "getCompact" ELSE "getInsert"]
    /\ UNCHANGED <<now, key, ref, cfg, cache, store, nextID, timers, timerDeletes, req, cookies>>
    /\ UNCHANGED mvars
    /\ UNCHANGED uvars

\* "c.compact(1)": what it returns is dropped.
GetCompact(a) ==
    /\ pc[a] = "getCompact"
    /\ \E c \in compact(CS(a), sess, 1) :
          /\ cache' = c.cache
          /\ store' = c.store
          /\ calls' = [calls EXCEPT ![a] = c.calls]
    /\ sess' = CollectS(sess, cache', ses, out)
    /\ pc' = [pc EXCEPT ![a] = "getInsert"]
    /\ UNCHANGED <<now, key, ref, cfg, nextID, timers, timerDeletes, req, ses, loc, out, cookies>>
    /\ UNCHANGED mvars
    /\ UNCHANGED uvars

\* "c.sessions[id] = session", "session.id = id" and the return.
GetInsert(a) ==
    /\ pc[a] = "getInsert"
    /\ cache' = Insert(CS(a), loc[a].id, ses[a]).cache
    /\ out' = [out EXCEPT ![a] = Returned(ses[a], "")]
    /\ sess' = CollectS([sess EXCEPT ![ses[a]].id = loc[a].id], cache', ses, out')
    /\ pc' = [pc EXCEPT ![a] = "idle"]
    /\ UNCHANGED <<now, key, ref, cfg, store, nextID, timers, timerDeletes, req, ses, loc,
                   cookies, calls>>
    /\ UNCHANGED mvars
    /\ UNCHANGED uvars

\* Two calls of Get write the map under the shared read lock: the runtime
\* may stop the program with "fatal error: concurrent map writes".
ConcurrentMapWrites(a) ==
    /\ Reading(a)
    /\ \E b \in Actors \ {a} : Reading(b)
    /\ pc' = [b \in Actors |-> "fatal"]
    /\ UNCHANGED <<now, key, ref>>
    /\ UNCHANGED svars
    /\ UNCHANGED mvars

\* cache.Set(session) with a session that a call of Get returned.
Set(a) ==
    /\ pc[a] = "idle"
    /\ \A b \in Actors : pc[b] = "idle"
    /\ ses[a] # Nil
    /\ LET o == ses[a]
           h == SetStamp(sess, o)
       IN /\ loc' = Started(loc, a, [oldID |-> Nil, id |-> sess[o].id], NoLocals)
          /\ \E c \in CacheSet(CS0(a), h, o) :
                /\ cache' = c.cache
                /\ store' = c.store
                /\ calls' = Started(calls, a, c.calls, <<>>)
                /\ out' = Started(out, a, Returned(Nil, c.err), NotReturned)
                /\ sess' = CollectS(h, cache', ses, out')
    /\ UNCHANGED <<now, pc, key, ref, cfg, nextID, timers, timerDeletes, req, ses, cookies>>
    /\ UNCHANGED mvars
    /\ UNCHANGED uvars

\* cache.Delete(id).
Delete(a, id) ==
    /\ pc[a] = "idle"
    /\ \A b \in Actors : pc[b] = "idle"
    /\ loc' = Started(loc, a, [oldID |-> Nil, id |-> id], NoLocals)
    /\ \E c \in CacheDelete(CS0(a), id) :
          /\ cache' = c.cache
          /\ store' = c.store
          /\ calls' = Started(calls, a, c.calls, <<>>)
          /\ out' = Started(out, a, Returned(Nil, c.err), NotReturned)
    /\ sess' = CollectS(sess, cache', ses, out')
    /\ UNCHANGED <<now, pc, key, ref, cfg, nextID, timers, timerDeletes, req, ses, cookies>>
    /\ UNCHANGED mvars
    /\ UNCHANGED uvars

\* Set and Delete exclude every other call of the cache, so it makes no
\* difference which goroutine calls them: the first one does, every
\* goroutine calls Get.
Writers == {1}

NextCache ==
    \/ \E a \in Actors, id \in CachedIDs : GetLoad(a, id)
    \/ \E a \in Actors : GetCompact(a)
    \/ \E a \in Actors : GetInsert(a)
    \/ \E a \in Actors : ConcurrentMapWrites(a)
    \/ \E a \in Writers : Set(a)
    \/ \E a \in Writers, id \in CachedIDs : Delete(a, id)

SpecCache == InitCache /\ [][NextCache]_vars

\* --------------------------------------------------- the data of a session
\* Session.data with one key: "{}" is the map without the key, "d1" the map
\* with a value under the key ("nil": no map).
EmptyData == "{}"
DataValues == {"d1"}
HasKey(d) == d \in DataValues
\* The goroutines work on one session.
DataIDs == {1}

\* As InitCache, MaxTime after the sessions were stored.
InitData ==
    /\ InitCache
    /\ now = MaxTime
    /\ MaxSessionCacheSize \in {0, 1}

\* "return Persistence.SaveSession(s.id, s)" of Set, Delete and LogOut of a
\* session, after the session was changed to "h[o]".
SaveThrough(a, h, o, from) ==
    \E c \in SaveSession(CS0(a), h, h[o].id, o, from) :
       /\ store' = c.store
       /\ calls' = Started(calls, a, c.calls, <<>>)
       /\ out' = Started(out, a, Returned(Nil, c.err), NotReturned)
       /\ sess' = CollectS(h, cache, ses, out')

\* Session.Set(key, value) on a session that Get returned.
SessionSet(a, d) ==
    /\ pc[a] = "idle"
    /\ ses[a] # Nil
    /\ loc' = Started(loc, a, [oldID |-> Nil, id |-> sess[ses[a]].id], NoLocals)
    /\ SaveThrough(a, [sess EXCEPT ![ses[a]].data = d], ses[a], "Session.Set")
    /\ UNCHANGED <<now, pc, key, ref, cfg, cache, nextID, timers, timerDeletes, req, ses,
                   cookies>>
    /\ UNCHANGED mvars
    /\ UNCHANGED uvars

\* Session.Delete(key).
SessionDelete(a) ==
    /\ pc[a] = "idle"
    /\ ses[a] # Nil
    /\ loc' = Started(loc, a, [oldID |-> Nil, id |-> sess[ses[a]].id], NoLocals)
    /\ SaveThrough(a, [sess EXCEPT ![ses[a]].data = EmptyData], ses[a], "Session.Delete")
    /\ UNCHANGED <<now, pc, key, ref, cfg, cache, nextID, timers, timerDeletes, req, ses,
                   cookies>>
    /\ UNCHANGED mvars
    /\ UNCHANGED uvars

\* Session.GetAndDelete(key, def): the key is deleted, the value returned;
\* the persistence layer is not called.
SessionGetAndDelete(a) ==
    /\ pc[a] = "idle"
    /\ ses[a] # Nil
    /\ loc' = Started(loc, a, [oldID |-> Nil, id |-> sess[ses[a]].id], NoLocals)
    /\ calls' = Started(calls, a, <<>>, <<>>)
    /\ out' = Started(out, a, NotReturned, NotReturned)
    /\ sess' = CollectS([sess EXCEPT ![ses[a]].data = EmptyData], cache, ses, out')
    /\ UNCHANGED <<now, pc, key, ref, cfg, cache, store, nextID, timers, timerDeletes, req,
                   ses, cookies>>
    /\ UNCHANGED mvars
    /\ UNCHANGED uvars

\* cache.Get(id) without another call of Get at the same time.
Get(a, id) ==
    /\ pc[a] = "idle"
    /\ loc' = Started(loc, a, [oldID |-> Nil, id |-> id], NoLocals)
    /\ \E g \in CacheGet(CS0(a), sess, id) :
          /\ cache' = g.cs.cache
          /\ store' = g.cs.store
          /\ calls' = Started(calls, a, g.cs.calls, <<>>)
          /\ ses' = [ses EXCEPT ![a] = g.session]
          /\ out' = Started(out, a, Returned(g.session, g.cs.err), NotReturned)
          /\ sess' = CollectS(g.h, cache', ses', out')
    /\ UNCHANGED <<now, pc, key, ref, cfg, nextID, timers, timerDeletes, req, cookies>>
    /\ UNCHANGED mvars
    /\ UNCHANGED uvars

NextData ==
    \/ \E a \in Actors, id \in DataIDs : Get(a, id)
    \/ \E a \in Writers : Set(a)
    \/ \E a \in Actors, d \in DataValues : SessionSet(a, d)
    \/ \E a \in Actors : SessionDelete(a)
    \/ \E a \in Actors : SessionGetAndDelete(a)

SpecData == InitData /\ [][NextData]_vars

\* ------------------------------------------------------------- users
\* The IDs of the users; user 2 is logged into no session.
Users == {1, 2}
RECURSIVE Ascending(_)
Ascending(S) ==
    IF S = {} THEN <<>>
    ELSE LET m == CHOOSE x \in S : \A y \in S : x <= y
         IN <<m>> \o Ascending(S \ {m})
\* Persistence.UserSessions(userID): the ids of the stored sessions that
\* contain this user; nil from a layer without UserSessionsFunc.
UserSessions(st, userID) ==
    IF cfg.UserSessionsFunc
       THEN Ascending({i \in IDs : st[i].present /\ st[i].user = userID})
       ELSE <<>>

\* A process whose store holds session 1 with user 1 logged in, and session
\* 2 with the same user or with none.
InitUser ==
    /\ InitMutexes
    /\ cfg \in {c \in Configs : /\ c.SessionExpiry = Forever
                                /\ c.mutexMaxCacheSize = DefaultMutexCacheSize
                                /\ c.MaxSessionCacheSize \in {-1, 0}
                                /\ c.UserSessionsFunc \/ c.MaxSessionCacheSize = -1
                                /\ c.Persistence = "reliable"
                                /\ c.AcceptRemoteIP = 1}
    /\ sess = [o \in SObjs |-> Blank]
    /\ cache = [i \in IDs |-> Nil]
    /\ store \in {[i \in IDs |-> IF i = 1 THEN [StoredPrimary(0, "d1") EXCEPT !.user = 1]
                                 ELSE IF i = 2 THEN [StoredPrimary(0, "d2") EXCEPT !.user = u]
                                 ELSE NotStored] : u \in {Nil, 1}}
    /\ nextID = 3
    /\ timers = {}
    /\ timerDeletes = [i \in IDs |-> 0]
    /\ req = [a \in Actors |-> NoRequest]
    /\ ses = [a \in Actors |-> Nil]
    /\ loc = [a \in Actors |-> [oldID |-> Nil, id |-> Nil]]
    /\ out = [a \in Actors |-> NotReturned]
    /\ cookies = [a \in Actors |-> <<>>]
    /\ calls = [a \in Actors |-> <<>>]

\* The error LogOut returns, as its caller returns it.
LogOutError(a, e) ==
    IF login'[a] # NoLogIn THEN "Could not log user out of existing sessions" ELSE e
\* Where the return of LogOut leads: back into LogIn, or out of the handler.
LogOutReturns(a, e) ==
    IF login'[a] = NoLogIn THEN "loggedOut" ELSE IF e = "" THEN "login" ELSE "done"

\* LogOut(userID) up to the loop: "Persistence.UserSessions(userID)".
LogOutBegin(a, userID) ==
    \E e \in PersistenceErrors :
       /\ logout' = [logout EXCEPT ![a] =
                        [sessionIDs |-> IF e = "" THEN UserSessions(store, userID) ELSE <<>>,
                         visited |-> 0]]
       /\ out' = [out EXCEPT ![a].err = IF e = "" THEN "" ELSE LogOutError(a, e)]
       /\ pc' = [pc EXCEPT ![a] = IF e = "" THEN "logout" ELSE LogOutReturns(a, e)]

\* A handler calls LogOut(userID).
LogOut(a, userID) ==
    /\ pc[a] = "idle"
    /\ \A b \in Actors : b < a => pc[b] # "idle"
    /\ login' = login
    /\ LogOutBegin(a, userID)
    /\ UNCHANGED <<now, key, ref, cfg, sess, cache, store, nextID, timers, timerDeletes,
                   req, ses, loc, cookies, calls>>
    /\ UNCHANGED mvars
    /\ UNCHANGED lvars

\* The loop of LogOut: "session, err := sessions.Get(sessionID)" and
\* "session.Lock()", which dereferences a nil session.
LogOutGet(a) ==
    /\ pc[a] = "logout"
    /\ logout[a].visited < Len(logout[a].sessionIDs)
    /\ login' = login
    /\ \E g \in CacheGet(CS(a), sess, logout[a].sessionIDs[logout[a].visited + 1]) :
          /\ cache' = g.cs.cache
          /\ store' = g.cs.store
          /\ calls' = [calls EXCEPT ![a] = g.cs.calls]
          /\ ses' = [ses EXCEPT ![a] = g.session]
          /\ IF g.cs.err # ""
                THEN /\ out' = [out EXCEPT ![a].err = LogOutError(a, g.cs.err)]
                     /\ pc' = [pc EXCEPT ![a] = LogOutReturns(a, g.cs.err)]
                ELSE /\ out' = out
                     /\ pc' = [pc EXCEPT ![a] = IF g.session = Nil THEN "panic"
                                                                   ELSE "logoutSet"]
          /\ sess' = CollectS(g.h, cache', ses', out')
    /\ UNCHANGED <<now, key, ref, cfg, nextID, timers, timerDeletes, req, loc, cookies, logout>>
    /\ UNCHANGED mvars
    /\ UNCHANGED lvars

\* "session.user = nil" and "sessions.Set(session)".
LogOutSet(a) ==
    /\ pc[a] = "logoutSet"
    /\ LET s == ses[a]
           h == SetStamp([sess EXCEPT ![s].user = Nil], s)
       IN \E c \in CacheSet(CS(a), h, s) :
             /\ cache' = c.cache
             /\ store' = c.store
             /\ calls' = [calls EXCEPT ![a] = c.calls]
             /\ sess' = CollectS(h, cache', ses, out)
    /\ logout' = [logout EXCEPT ![a].visited = @ + 1]
    /\ pc' = [pc EXCEPT ![a] = "logout"]
    /\ UNCHANGED <<now, key, ref, cfg, nextID, timers, timerDeletes, req, ses, loc, out,
                   cookies, login>>
    /\ UNCHANGED mvars
    /\ UNCHANGED lvars

\* "return nil" after the loop.
LogOutReturn(a) ==
    /\ pc[a] = "logout"
    /\ logout[a].visited = Len(logout[a].sessionIDs)
    /\ login' = login
    /\ pc' = [pc EXCEPT ![a] = LogOutReturns(a, "")]
    /\ UNCHANGED <<now, key, ref, cfg, sess, cache, store, nextID, timers, timerDeletes,
                   req, ses, loc, out, cookies, calls, logout>>
    /\ UNCHANGED mvars
    /\ UNCHANGED lvars

\* s.LogOut(): the user is removed and the session saved, if there is one.
SessionLogOut(a, s) ==
    IF sess[s].user = Nil
       THEN /\ sess' = sess
            /\ store' = store
            /\ calls' = [calls EXCEPT ![a] = <<>>]
       ELSE LET h == [sess EXCEPT ![s].user = Nil]
            IN \E c \in SaveSession([CS(a) EXCEPT !.calls = <<>>], h, h[s].id, s, "LogOut") :
                  /\ sess' = h
                  /\ store' = c.store
                  /\ calls' = [calls EXCEPT ![a] = c.calls]

\* s.LogIn(user, exclusive, response) on the session that Start returned, up
\* to "Log user into this session"; "calls" starts anew with the call.
LogIn(a, user, exclusive) ==
    /\ pc[a] = "done"
    /\ out[a].session # Nil
    /\ login[a] = NoLogIn
    /\ login' = [login EXCEPT ![a] = [user |-> user, exclusive |-> exclusive]]
    /\ IF exclusive
          THEN /\ LogOutBegin(a, user)
               /\ calls' = [calls EXCEPT ![a] = <<>>]
               /\ UNCHANGED <<sess, store>>
          ELSE /\ SessionLogOut(a, out[a].session)
               /\ pc' = [pc EXCEPT ![a] = "login"]
               /\ UNCHANGED <<out, logout>>
    /\ UNCHANGED <<now, key, ref, cfg, cache, nextID, timers, timerDeletes, req, ses, loc,
                   cookies>>
    /\ UNCHANGED mvars
    /\ UNCHANGED lvars

\* "s.user = user", "sessions.Set(s)" and the call of
\* "sessionIDMutexes.Lock(s.id)".
LogInSet(a) ==
    /\ pc[a] = "login"
    /\ LET s == out[a].session
           h == SetStamp([sess EXCEPT ![s].user = login[a].user], s)
       IN \E c \in CacheSet(CS(a), h, s) :
             /\ cache' = c.cache
             /\ store' = c.store
             /\ calls' = [calls EXCEPT ![a] = c.calls]
             /\ ses' = [ses EXCEPT ![a] = s]
             /\ sess' = CollectS(h, cache', ses', out)
             /\ key' = [key EXCEPT ![a] = sess[s].id]
    /\ pc' = [pc EXCEPT ![a] = "acqSend"]
    /\ UNCHANGED <<now, ref, cfg, nextID, timers, timerDeletes, req, loc, out, cookies>>
    /\ UNCHANGED uvars
    /\ UNCHANGED mvars

\* Lock has returned: "defer sessionIDMutexes.Unlock(s.id)" evaluates s.id
\* now, for the Unlock that runs when LogIn returns; RegenerateID follows.
LogInLocked(a) ==
    /\ pc[a] = "held"
    /\ login[a] # NoLogIn
    /\ key' = [key EXCEPT ![a] = sess[out[a].session].id]
    /\ pc' = [pc EXCEPT ![a] = "regen1"]
    /\ UNCHANGED <<now, ref>>
    /\ UNCHANGED svars
    /\ UNCHANGED mvars

\* The requests of the clients: a known id, either user agent.
RequestsUser == {r \in Requests : HasID(r.cookie) /\ ~r.create}

NextUser ==
    \/ \E a \in Actors : \E r \in RequestsUser : StartBegin(a, r)
    \/ \E a \in Actors : AcquireCase(a)
    \/ \E a \in Actors : LockGetItem(a)
    \/ \E a \in Actors : Handoff(a)
    \/ \E a \in Actors : StartGet(a)
    \/ \E a \in Actors : StartCheck(a)
    \/ \E a \in Actors : Regen1(a)
    \/ \E a \in Actors : Regen2(a)
    \/ \E a \in Actors : Follow(a)
    \/ \E a \in Actors : Touch(a)
    \/ \E a \in Actors : StartUnlock(a)
    \/ \E a \in Actors : \E u \in Users : LogOut(a, u)
    \/ \E a \in Actors : LogOutGet(a)
    \/ \E a \in Actors : LogOutSet(a)
    \/ \E a \in Actors : LogOutReturn(a)
    \/ \E a \in Actors : \E u \in Users : \E exclusive \in BOOLEAN : LogIn(a, u, exclusive)
    \/ \E a \in Actors : LogInSet(a)
    \/ \E a \in Actors : LogInLocked(a)

SpecUser == InitUser /\ [][NextUser]_vars

\* ------------------------------------------------------- the encodings
\* Here a time is a number of instants, SubSecond of them in a second, and a
\* value of type interface{} (a user ID, a value of Session.data) is its
\* dynamic type and a number standing for the value.
Typed(type, v) == [type |-> type, v |-> v]
NoValue == Typed("nil", 0)
Values == {Typed("int", 1), Typed("float64", 1), Typed("string", 1), Typed("bool", 1)}

\* strconv.FormatUint(n, base) by the digits, strconv.ParseUint back.
RECURSIVE FormatUint(_, _)
FormatUint(n, base) ==
    IF n < base THEN <<n>> ELSE FormatUint(n \div base, base) \o <<n % base>>
RECURSIVE ParseUint(_, _)
ParseUint(digits, base) ==
    IF digits = <<>> THEN 0
    ELSE ParseUint(SubSeq(digits, 1, Len(digits) - 1), base) * base + digits[Len(digits)]

\* encoding/gob: a time.Time by its seconds and the fraction, an unsigned
\* number by its bytes, a value of type interface{} with its type.
GobEncode(s) ==
    [enc |-> "gob", v |-> 1,
     cr |-> [sec |-> s.created \div SubSecond, frac |-> s.created % SubSecond],
     la |-> [sec |-> s.lastAccess \div SubSecond, frac |-> s.lastAccess % SubSecond],
     ip |-> s.lastIP,
     ua |-> FormatUint(s.lastUserAgentHash, 256),
     rf |-> s.referenceID,
     loggedIn |-> s.user # NoValue,
     us |-> s.user,
     da |-> s.data]

\* time.Time.Format(time.RFC3339) writes date and time to the second.
FormatRFC3339(t) == [sec |-> t \div SubSecond, frac |-> 0]
\* json.Marshal and json.Unmarshal into interface{}: every number comes
\* back as a float64.
JSONValue(x) == IF x.type = "int" THEN Typed("float64", x.v) ELSE x

\* MarshalJSON; "rf" and "us" are left out when empty.
MarshalJSON(s) ==
    [enc |-> "json", v |-> 1,
     cr |-> FormatRFC3339(s.created),
     la |-> FormatRFC3339(s.lastAccess),
     ip |-> s.lastIP,
     ua |-> FormatUint(s.lastUserAgentHash, 36),
     rf |-> s.referenceID,
     loggedIn |-> s.user # NoValue,
     us |-> s.user,
     da |-> s.data]

\* The sessions that are encoded, and the version numbers of the payloads
\* that are decoded.
Inputs ==
    {[Session(1, c, la, ip, ua, rf, da) EXCEPT !.user = us] :
        c \in 0..MaxTime, la \in 0..MaxTime, ip \in {NoAddr, IPv4(10, 0, 0, 1)},
        ua \in {0, 40, 300}, rf \in {Nil, 2}, us \in {NoValue, Typed("int", 1)},
        da \in Values}
Versions == {1, 2}

\* A session "s" in sess[1] and under id 1 of the store a payload: an
\* encoding of s, or the same with another version number.
InitCodec ==
    /\ InitMutexes
    /\ cfg \in {c \in Configs : /\ c.SessionExpiry = Forever
                                /\ c.UserSessionsFunc
                                /\ c.mutexMaxCacheSize = DefaultMutexCacheSize
                                /\ c.MaxSessionCacheSize = -1
                                /\ c.Persistence = "reliable"
                                /\ c.AcceptRemoteIP = 1}
    /\ \E s \in Inputs, v \in Versions :
          /\ sess = [o \in SObjs |-> IF o = 1 THEN s
                                     ELSE [Blank EXCEPT !.user = NoValue, !.data = NoValue]]
          /\ \E p \in {GobEncode(s), MarshalJSON(s)} :
                store = [i \in IDs |-> IF i = 1 THEN [p EXCEPT !.v = v] ELSE NotStored]
    /\ cache = [i \in IDs |-> Nil]
    /\ nextID = 3
    /\ timers = {}
    /\ timerDeletes = [i \in IDs |-> 0]
    /\ req = [a \in Actors |-> NoRequest]
    /\ ses = [a \in Actors |-> IF a = 1 THEN 1 ELSE Nil]
    /\ loc = [a \in Actors |-> NoLocals]
    /\ out = [a \in Actors |-> NotReturned]
    /\ cookies = [a \in Actors |-> <<>>]
    /\ calls = [a \in Actors |-> <<>>]

\* A decoder returns a session in sess[2], or an error.
Decoded(a, e, s) ==
    /\ pc[a] = "idle"
    /\ pc' = [pc EXCEPT ![a] = "done"]
    /\ out' = [out EXCEPT ![a] = IF e = "" THEN Returned(2, "") ELSE Returned(Nil, e)]
    /\ sess' = IF e = "" THEN [sess EXCEPT ![2] = s] ELSE sess
    /\ UNCHANGED <<now, key, ref, cfg, cache, store, nextID, timers, timerDeletes, req, ses,
                   loc, cookies, calls>>
    /\ UNCHANGED mvars
    /\ UNCHANGED uvars

\* GobDecode into a new Session: the version is read and not looked at.
GobDecode(a) ==
    LET p == store[1]
    IN /\ p.enc = "gob"
       /\ Decoded(a, "",
                  [id |-> Nil,
                   created |-> p.cr.sec * SubSecond + p.cr.frac,
                   lastAccess |-> p.la.sec * SubSecond + p.la.frac,
                   lastIP |-> p.ip,
                   lastUserAgentHash |-> ParseUint(p.ua, 256),
                   referenceID |-> p.rf,
                   user |-> IF p.loggedIn THEN p.us ELSE NoValue,
                   data |-> p.da])

\* UnmarshalJSON into a new Session; time.Parse reads what Format wrote.
UnmarshalJSON(a) ==
    LET p == store[1]
    IN /\ p.enc = "json"
       /\ Decoded(a, IF p.v # 1 THEN "Invalid version" ELSE "",
                  [id |-> Nil,
                   created |-> p.cr.sec * SubSecond,
                   lastAccess |-> p.la.sec * SubSecond,
                   lastIP |-> p.ip,
                   lastUserAgentHash |-> ParseUint(p.ua, 36),
                   referenceID |-> p.rf,
                   user |-> IF p.loggedIn THEN JSONValue(p.us) ELSE NoValue,
                   data |-> JSONValue(p.da)])

NextCodec ==
    \/ GobDecode(1)
    \/ UnmarshalJSON(1)

SpecCodec == InitCodec /\ [][NextCodec]_vars


\* The fairness of the Go scheduler: a goroutine blocked on a channel is
\* served, the coordinator keeps running, and (the hypothesis of the progress
\* claim) whoever holds a key calls Unlock.
FairSpec ==
    /\ Spec
    /\ SF_vars(SizePurge)
    /\ \A a \in Actors : /\ SF_vars(AcquireCase(a))
                         /\ WF_vars(LockGetItem(a))
                         /\ SF_vars(Handoff(a))
                         /\ SF_vars(Unlock(a))

\* ---------------------------------------------------------------- claims
Holders(k) == {a \in Actors : pc[a] = "held" /\ key[a] = k}

\* C1: for every key, at no instant are two goroutines both between the return
\* of their Lock(k) and their matching Unlock(k).
C1_MutualExclusion == \A k \in Keys : Cardinality(Holders(k)) <= 1

\* C2: a purge never removes an entry whose holder count is greater than 0.
C2_PurgeKeepsHeldEntries ==
    [][(TimerPurge \/ SizePurge) =>
          \A k \in Keys : (items[k] # NoItem /\ locks[items[k]] > 0) => items'[k] = items[k]]_vars

\* C3: if every holder eventually calls Unlock, every Lock call eventually
\* returns.
C3_Progress == \A a \in Actors : (pc[a] = "acqSend") ~> (pc[a] = "held")

\* The goroutines other than a that the coordinator counts on a's key.
OthersOn(a) ==
    {b \in Actors \ {a} : key[b] = key[a] /\ pc[b] \in {"getItem", "recv", "held"}}

\* Some goroutine receives, or is about to receive, from the channel the
\* coordinator sends on.
SendHasReceiver ==
    coord.st # "select" =>
        \E a \in Actors : \/ pc[a] = "recv" /\ ref[a] = coord.obj
                          \/ pc[a] = "getItem" /\ items[key[a]] = coord.obj

\* C4: a Lock(k2) on a key nobody holds or waits for is granted at once,
\* whatever is held on other keys: the coordinator offers the token as soon as
\* it takes the request, and a send of the coordinator never waits for an
\* Unlock.
C4_Independence ==
    /\ []SendHasReceiver
    /\ [][\A a \in Actors :
             (AcquireCase(a) /\ OthersOn(a) = {}) => coord' = SendingAcq(items'[key[a]])]_vars

\* One goroutine holds key 1 while another one holds key 2.
C4_Witness == \E a, b \in Actors : /\ pc[a] = "held" /\ key[a] = 1
                                   /\ pc[b] = "held" /\ key[b] = 2

\* C5: an Unlock on a key whose count is 0 leaves the count at 0, no count
\* ever goes negative, and no goroutine and no other entry is touched.
C5_DoubleUnlockNoOp ==
    /\ [](\A o \in Objs : locks[o] >= 0)
    /\ [][\A k \in Keys : DoubleUnlock(k) =>
             /\ locks'[items'[k]] = 0
             /\ coord' = Selecting
             /\ pc' = pc /\ key' = key /\ ref' = ref
             /\ \A j \in Keys \ {k} : items'[j] = items[j]
             /\ \A o \in Objs \ {items'[k]} : locks'[o] = locks[o]]_vars

\* Key 2 got its entry from an Unlock nobody matched (no goroutine ever asked
\* for key 2) while a goroutine holds key 1.
C5_Witness ==
    /\ items[2] # NoItem
    /\ \A a \in Actors : key[a] = 1
    /\ \E a \in Actors : pc[a] = "held"

\* ------------------------------------------------- claims on Start
Last(q) == q[Len(q)]
Saves(q) == SelectSeq(q, LAMBDA c : c.op = "save")
SavesFrom(q, from) == SelectSeq(q, LAMBDA c : c.op = "save" /\ c.from = from)
Deletes(q) == SelectSeq(q, LAMBDA c : c.op = "delete")
RECURSIVE Total(_, _)
Total(f, S) ==
    IF S = {} THEN 0
    ELSE LET x == CHOOSE y \in S : TRUE IN f[x] + Total(f, S \ {x})

\* The rotation storm on cookie 1: every handler presented cookie 1 with the
\* stored user agent and has returned, id 1 was rotated, the grace period of
\* that rotation is not over, and the cache holds every session.
Storm ==
    /\ \A a \in Actors : pc[a] = "done" /\ req[a].cookie = 1 /\ req[a].ua = 0
    /\ \E a \in Actors : loc[a].oldID = 1
    /\ \E t \in timers : t.id = 1
    /\ MaxSessionCacheSize < 0

\* C6: in a rotation storm every call returns the same session object, one
\* shadow is created under the old id, SaveSession is invoked twice in total,
\* and the only DeleteSession is the one of the old id after the grace period.
C6_RotationStorm ==
    Storm =>
       /\ \A a, b \in Actors : out[a].session # Nil /\ out[a].session = out[b].session
       /\ Total([a \in Actors |-> Len(Saves(calls[a]))], Actors) = 2
       /\ Total([a \in Actors |->
                    Len(SelectSeq(calls[a], LAMBDA c : c.op = "save" /\ c.ref # Nil))],
                Actors) = 1
       /\ \A a \in Actors : Deletes(calls[a]) = <<>>
       /\ Cardinality({t \in timers : t.id = 1}) + timerDeletes[1] = 1

\* What a rotation leaves behind: the session saved under the new id with
\* its data, the shadow under the old id referring to the new id, the cookie.
RotationSaved(a) ==
    /\ Regen1(a) =>
          /\ sess'[ses[a]].id = nextID
          /\ nextID # req[a].cookie
          /\ sess'[ses[a]].data = sess[ses[a]].data
          /\ store'[nextID] = Stored(sess'[ses[a]])
    /\ Regen2(a) =>
          /\ store'[loc[a].oldID].present
          /\ store'[loc[a].oldID].referenceID = loc[a].id
          /\ cache'[loc[a].oldID] # Nil =>
                sess'[cache'[loc[a].oldID]].referenceID = loc[a].id
          /\ Last(cookies'[a]) = loc[a].id
RotationReturned(a) ==
    pc[a] \in {"unlock", "done"} /\ loc[a].oldID # Nil =>
       /\ out[a] = Returned(ses[a], "")
       /\ ses[a] # Nil
       /\ sess[ses[a]].id # req[a].cookie
       /\ sess[ses[a]].referenceID = Nil
TwoSaves(a) ==
    <<Call("save", loc[a].id, Nil, "Set"), Call("save", loc[a].oldID, loc[a].id, "Set")>>

\* C7 as stated: a rotation returns the session, data intact, under a new id,
\* emits the cookie with the new id, leaves a shadow under the old id, and
\* invokes SaveSession exactly twice (primary under the new id, then shadow
\* under the old id).
C7_RotationExactlyTwoSaves ==
    /\ [](\A a \in Actors : RotationReturned(a))
    /\ [][\A a \in Actors :
            /\ RotationSaved(a)
            /\ Regen2(a) => Saves(calls'[a]) = TwoSaves(a)]_vars

\* C7 amended: as above, but the two SaveSession calls are those cache.Set
\* makes for the rotation; every other SaveSession call of the request writes
\* back a session that the compaction of the cache evicted.
C7_Rotation ==
    /\ [](\A a \in Actors : RotationReturned(a))
    /\ [][\A a \in Actors :
            /\ RotationSaved(a)
            /\ Regen2(a) =>
                  /\ SavesFrom(calls'[a], "Set") = TwoSaves(a)
                  /\ Len(Saves(calls'[a])) =
                        2 + Len(SavesFrom(calls'[a], "compact"))]_vars
\* A rotation during which the cache evicted a session.
C7_Witness ==
    \E a \in Actors :
       /\ pc[a] = "done" /\ loc[a].oldID = 1 /\ out[a].session # Nil
       /\ Len(SavesFrom(calls[a], "compact")) > 0
       /\ store[1].present /\ store[1].referenceID = loc[a].id

\* C8: no Start that presents the old id of a rotation when the grace period
\* of that rotation is over is resolved through the shadow to the primary
\* (the shadow's "created" is the time of the rotation).
C8_NoLateFollow ==
    [][\A a \in Actors :
          Follow(a) /\ ses'[a] # Nil =>
             req[a].at < sess[ses[a]].created + SessionIDGracePeriod]_vars

\* The id resolves to a primary session: in the cache, or else in the store.
StoredPrimaryAt(id) ==
    IF cache[id] # Nil THEN sess[cache[id]].referenceID = Nil
    ELSE store[id].present /\ store[id].referenceID = Nil

\* C9: when the presented id maps to a valid shadow whose referenceID B is a
\* stored primary, Start takes B's session instead of the shadow, emits a
\* cookie carrying B, applies the touch to that session and returns it.
C9_ShadowFollow ==
    [][\A a \in Actors :
          /\ Follow(a) /\ StoredPrimaryAt(sess[ses[a]].referenceID) =>
                LET B == sess[ses[a]].referenceID
                IN /\ ses'[a] # Nil /\ ses'[a] # ses[a]
                   /\ sess'[ses'[a]].referenceID = Nil
                   /\ cache[B] # Nil => ses'[a] = cache[B]
                   /\ cache[B] = Nil =>
                         sess'[ses'[a]] = [Loaded(store[B]) EXCEPT !.id = B]
                   /\ Last(cookies'[a]) = B
                   /\ pc'[a] = "touch"
          /\ Touch(a) =>
                /\ out'[a] = Returned(ses[a], "")
                /\ sess'[ses[a]] = [sess[ses[a]] EXCEPT !.lastAccess = now,
                                                         !.lastIP = req[a].ip,
                                                         !.lastUserAgentHash = req[a].ua]
          /\ StartUnlock(a) => out'[a] = out[a]]_vars
\* A Start that presented id 1, a shadow of 2, and returned the session of 2.
C9_Witness ==
    \E a \in Actors :
       /\ pc[a] = "done" /\ req[a].cookie = 1 /\ cookies[a] = <<2>>
       /\ out[a].session # Nil /\ out[a].err = ""
       /\ sess[out[a].session].data = "d2"
       /\ sess[out[a].session].lastUserAgentHash = req[a].ua

\* C10: a Start called with createIfNew = true returns a session.
C10_CreateAlwaysReturns ==
    \A a \in Actors : pc[a] = "done" /\ req[a].create => out[a].session # Nil

\* C11: a Start without a session cookie, or with one whose value is not 24
\* characters long, and without createIfNew returns nil and no error, emits
\* no cookie, takes no keyed lock and makes no cache or persistence call.
C11_NoCookieNoCreate ==
    /\ [](\A a \in Actors :
            pc[a] = "done" /\ ~HasID(req[a].cookie) /\ ~req[a].create =>
               out[a] = Returned(Nil, "") /\ cookies[a] = <<>> /\ calls[a] = <<>>)
    /\ [][\A a \in Actors : \A r \in Requests :
            StartBegin(a, r) /\ ~HasID(r.cookie) /\ ~r.create =>
               /\ pc'[a] = "done"
               /\ UNCHANGED <<mvars, key, ref, cache, store, sess, nextID, timers>>]_vars
\* Such a Start has returned, for a missing and for a malformed cookie.
C11_Witness ==
    /\ \A a \in Actors : pc[a] = "done" /\ ~req[a].create
    /\ {req[a].cookie : a \in Actors} = {NoCookie, BadCookie}

\* C12: a Start with an id that is neither in the cache nor in the store and
\* without createIfNew returns nil and no error, emits the deletion cookie
\* and creates no session in the cache or the store.
C12_UnknownCookie ==
    [][\A a \in Actors :
          /\ StartGet(a) /\ cache[key[a]] = Nil /\ ~store[key[a]].present
                /\ ~req[a].create =>
                /\ ses'[a] = Nil
                /\ cookies'[a] = <<DeletedCookie>>
                /\ out'[a] = Returned(Nil, "")
                /\ pc'[a] = "unlock"
                /\ UNCHANGED <<cache, store, nextID>>
          /\ StartUnlock(a) => UNCHANGED <<out, cookies, cache, store, nextID>>]_vars
C12_Witness ==
    \E a \in Actors :
       /\ pc[a] = "done" /\ HasID(req[a].cookie) /\ ~req[a].create
       /\ calls[a] = <<Call("load", req[a].cookie, Nil, "Get")>>
       /\ cookies[a] = <<DeletedCookie>> /\ out[a] = Returned(Nil, "")

\* C13: when a validity check marks the fetched session invalid, Start
\* deletes that session from the cache and the store and emits the deletion
\* cookie; without createIfNew it returns nil and no error.
C13_Anomaly ==
    [][\A a \in Actors :
          StartCheck(a) /\ ~Valid(a, ses[a]) =>
             /\ \A i \in IDs : cache'[i] # ses[a]
             /\ ~store'[key[a]].present
             /\ Last(cookies'[a]) = DeletedCookie
             /\ ~req[a].create => pc'[a] = "unlock" /\ out'[a] = Returned(Nil, "")]_vars

\* C15 as stated: a valid primary session whose age is at least
\* SessionIDExpiry + SessionIDGracePeriod is deleted from the cache and Start
\* fails with "Session expired", leaving the cookie, instead of rotating it.
C15_GraceExpiredPrimary ==
    [][\A a \in Actors :
          StartCheck(a) /\ Valid(a, ses[a]) /\ sess[ses[a]].referenceID = Nil
             /\ now - sess[ses[a]].created >= SessionIDExpiry + SessionIDGracePeriod =>
             /\ cache'[key[a]] = Nil
             /\ cookies'[a] = cookies[a]
             /\ out'[a] = Returned(Nil, "Session expired")
             /\ pc'[a] = "unlock"]_vars

\* C15 amended: it is a valid shadow of that age that is deleted (from the
\* cache and the store) with the failure "Session expired" and the cookie
\* left; a valid primary of age >= SessionIDExpiry is rotated, however old.
C15_GraceExpiredShadow ==
    [][\A a \in Actors :
          /\ StartCheck(a) /\ Valid(a, ses[a]) /\ sess[ses[a]].referenceID # Nil
                /\ now - sess[ses[a]].created >= SessionIDExpiry + SessionIDGracePeriod =>
                /\ cache'[key[a]] = Nil /\ ~store'[key[a]].present
                /\ cookies'[a] = cookies[a]
                /\ out'[a] = Returned(Nil, "Session expired")
                /\ pc'[a] = "unlock"
          /\ StartCheck(a) /\ Valid(a, ses[a]) /\ sess[ses[a]].referenceID = Nil
                /\ now - sess[ses[a]].created >= SessionIDExpiry =>
                /\ pc'[a] = "regen1"
                /\ UNCHANGED <<cache, store, out, cookies>>]_vars
C15_Witness ==
    \E a \in Actors :
       /\ pc[a] = "done" /\ out[a] = Returned(Nil, "Session expired")
       /\ cookies[a] = <<>> /\ ~store[req[a].cookie].present

Holding(a, k) ==
    /\ Locked(a) /\ key[a] = k
    /\ pc[a] \in {"held", "check", "regen1", "regen2", "follow", "touch", "create", "unlock"}

\* C17: a Start that took the keyed lock of the presented id releases the
\* lock of that same id exactly once before it returns, on every path.
C17_UnlockOnce ==
    /\ [](\A a \in Actors : Locked(a) /\ pc[a] # "idle" => key[a] = req[a].cookie)
    /\ [][\A a \in Actors :
            /\ pc[a] # "done" /\ pc'[a] = "done" /\ Locked(a) => StartUnlock(a)
            /\ pc[a] = "done" => pc'[a] = "done"
            /\ StartUnlock(a) => Holding(a, req[a].cookie) /\ pc'[a] = "done"
            /\ Holding(a, key[a]) /\ ~StartUnlock(a) => Holding(a, key[a])']_vars
\* Starts that took the lock and returned: one with a session, one without.
C17_Witness ==
    /\ \A a \in Actors : pc[a] = "done" /\ Locked(a)
    /\ \E a, b \in Actors : out[a].session # Nil /\ out[b].session = Nil

\* C18: the persistence calls on an identifier are serialized by the keyed
\* lock: while a handler holds the lock of k, the store under k changes only
\* through a call of a handler that holds the lock of k.
C18_Linearization ==
    [][\A k \in IDs :
          (\E a \in Actors : Holding(a, k)) /\ store'[k] # store[k] =>
             \E a \in Actors : Holding(a, k) /\ calls'[a] # calls[a]]_vars

\* The ways to read s as a.b.c.d:port, and the four octets of such an address.
Dotted(s) ==
    {e \in Matches(s) : s[e[1] + 1] = "." /\ s[e[2] + 1] = "." /\ s[e[3] + 1] = "."}
Octets(s) ==
    LET e == CHOOSE m \in Dotted(s) : TRUE
    IN <<SubSeq(s, 1, e[1]), SubSeq(s, e[1] + 2, e[2]),
         SubSeq(s, e[2] + 2, e[3]), SubSeq(s, e[3] + 2, e[4])>>

\* C14: with AcceptRemoteIP = k in 2..4 and both addresses of the form
\* a.b.c.d:port the check invalidates the session exactly if one of the first
\* k-1 octets differs; with k = 1 or an address that is no IPv4 address it
\* never invalidates.
C14_IPPrefix ==
    [][\A a \in Actors :
          StartCheck(a) =>
             LET previous == sess[ses[a]].lastIP
                 current == req[a].ip
             IN ~Valid(a, ses[a]) <=>
                   /\ AcceptRemoteIP \in 2..4
                   /\ Dotted(previous) # {} /\ Dotted(current) # {}
                   /\ \E i \in 1..(AcceptRemoteIP - 1) :
                         Octets(previous)[i] # Octets(current)[i]]_vars

\* The number of sessions in the cache.
NumCached(ca) == Cardinality({i \in IDs : ca[i] # Nil})

\* C19: with MaxSessionCacheSize = N >= 1 the cache holds at most N sessions
\* after any completed Get or Set, whatever the interleaving of the calls and
\* whatever the persistence layer returns.
C19_CacheCapacity ==
    [][\A a \in Actors :
          /\ MaxSessionCacheSize >= 1
          /\ \/ GetInsert(a)
             \/ Set(a)
             \/ \E id \in CachedIDs : GetLoad(a, id) /\ pc'[a] = "idle"
          => NumCached(cache') <= MaxSessionCacheSize]_vars

\* C20: when the write-through SaveSession of Set fails, Set returns that
\* error, and the session is in the cache all the same.
C20_SetReportsError ==
    [][\A a \in Actors :
          Set(a) /\ Last(calls'[a]).err # ""
          => /\ out'[a].err = Last(calls'[a]).err
             /\ cache'[loc'[a].id] = ses[a]]_vars

\* A call of the cache by "a" returns in this step.
CacheReturns(a) ==
    \/ GetInsert(a)
    \/ Set(a)
    \/ \E id \in CachedIDs : Delete(a, id)
    \/ \E id \in CachedIDs : GetLoad(a, id) /\ pc'[a] = "idle"

\* C21: an error that LoadSession returns during Get, DeleteSession during
\* Delete, or SaveSession during the compaction run by Get or Set is the error
\* that this call of the cache returns.
C21_ErrorPropagation ==
    [][\A a \in Actors :
          CacheReturns(a) =>
             \A i \in 1..Len(calls'[a]) :
                /\ calls'[a][i].err # ""
                /\ calls'[a][i].from \in {"Get", "Delete", "compact"}
                => out'[a].err = calls'[a][i].err]_vars

\* C27: when a call of the persistence layer fails during Set or Delete of
\* the cache, the error is returned and the cache and the sessions are as
\* they were before the call.
C27_FailureChangesNothing ==
    [][\A a \in Actors :
          /\ Set(a) \/ \E id \in CachedIDs : Delete(a, id)
          /\ \E i \in 1..Len(calls'[a]) : calls'[a][i].err # ""
          => /\ out'[a].err # ""
             /\ cache' = cache
             /\ \A o \in LiveS(cache, ses, out) \ {Nil} : sess'[o] = sess[o]]_vars

\* A call of Get by "a" returns in this step.
GetReturns(a) ==
    \/ GetInsert(a)
    \/ \E id \in CachedIDs : GetLoad(a, id) /\ pc'[a] = "idle"

Kept == (LiveS(cache, ses, out) \cap LiveS(cache', ses', out')) \ {Nil}

\* C23 as stated: Set(s) calls SaveSession(s.id, s) with s.lastAccess the time
\* of the call, and the lastAccess values that the persistence layer receives
\* for one session, under its id, never decrease.
C23_StoredLastAccess ==
    [][/\ \A a \in Writers :
             Set(a) => /\ sess'[ses[a]].lastAccess = now
                       /\ Last(calls'[a]).op = "save"
                       /\ Last(calls'[a]).id = sess[ses[a]].id
                       /\ Last(calls'[a]).err = "" => store'[sess[ses[a]].id] = Stored(sess'[ses[a]])
       /\ \A i \in IDs :
             store[i].present /\ store'[i].present
             => store'[i].lastAccess >= store[i].lastAccess]_vars

\* C23, amended: Set(s) calls SaveSession(s.id, s) with s.lastAccess the time
\* of the call, and the lastAccess of one Session value, which every
\* SaveSession for it carries, never decreases.
C23_LastAccess ==
    [][/\ \A a \in Writers :
             Set(a) => /\ sess'[ses[a]].lastAccess = now
                       /\ Last(calls'[a]).op = "save"
                       /\ Last(calls'[a]).id = sess[ses[a]].id
                       /\ Last(calls'[a]).err = "" => store'[sess[ses[a]].id] = Stored(sess'[ses[a]])
       /\ \A o \in Kept : sess'[o].lastAccess >= sess[o].lastAccess]_vars

\* Set has saved a session that was loaded with an older lastAccess.
C23_Witness ==
    \E a \in Writers :
       /\ pc[a] = "idle" /\ ses[a] # Nil
       /\ calls[a] # <<>> /\ Last(calls[a]) = Call("save", sess[ses[a]].id, Nil, "Set")
       /\ sess[ses[a]].lastAccess = MaxTime
       /\ store[sess[ses[a]].id] = Stored(sess[ses[a]])

\* C24: Set, Delete and, when the key exists, GetAndDelete of a session call
\* SaveSession for the id of the session and return the error of that call.
C24_DataOpsSave ==
    [][\A a \in Actors :
          \/ \E d \in DataValues : SessionSet(a, d)
          \/ SessionDelete(a)
          \/ SessionGetAndDelete(a) /\ HasKey(sess[ses[a]].data)
          => /\ Len(calls'[a]) = 1
             /\ calls'[a][1].op = "save"
             /\ calls'[a][1].id = sess[ses[a]].id
             /\ out'[a].err = calls'[a][1].err]_vars

\* C28: decoding either encoding of a session s gives a session with the
\* created, lastAccess, lastIP, lastUserAgentHash, referenceID and data of s,
\* without id, and with the user that LoadUser returns for the user ID of s.
C28_RoundTrip ==
    pc[1] = "done" /\ store[1].v = 1
    => /\ out[1] = Returned(2, "")
       /\ sess[2] = [sess[1] EXCEPT !.id = Nil]

\* C29: decoding a payload whose version is not 1 fails, in either encoding,
\* and gives no session.
C29_VersionCheck ==
    pc[1] = "done" /\ store[1].v # 1
    => out[1].session = Nil /\ out[1].err # ""

\* C30: Start finds a session stale exactly when the time since its last
\* access, as left by the most recent Start that returned the session or by
\* the most recent cache set on it, has reached SessionExpiry.  (What Start
\* compares is the lastAccess of the session the cache returned; the claim is
\* that this is never older than what an earlier Start left.)
LeftBy(a) ==
    {sess[ses[a]].lastAccess} \cup
    {sess[out[b].session].lastAccess :
        b \in {c \in Actors : /\ pc[c] = "done"
                              /\ out[c].session # Nil
                              /\ sess[out[c].session].id = sess[ses[a]].id}}
C30_InactivityExpiry ==
    \A a \in Actors :
        pc[a] = "check"
        => LET last == CHOOSE t \in LeftBy(a) : \A u \in LeftBy(a) : u <= t
           IN (now - sess[ses[a]].lastAccess >= SessionExpiry)
              <=> (now - last >= SessionExpiry)


\* ------------------------------------------------- claims on users
\* No session under an id that UserSessions returned to handler a has a user,
\* in the store "st" and in the cache "ca" with the sessions "h".
LoggedOutOf(a, st, ca, h) ==
    \A n \in 1..Len(logout[a].sessionIDs) :
        LET i == logout[a].sessionIDs[n]
        IN /\ st[i].present => st[i].user = Nil
           /\ ca[i] # Nil => h[ca[i]].user = Nil

\* C25: LogOut(userID) completes without error, whatever concurrent Start
\* calls do with the user's sessions, and when it returns no session under
\* an id that UserSessions returned has a user attached; when UserSessions
\* returns nil, LogOut changes nothing and returns no error.
C25_GlobalLogOut ==
    [][\A a \in Actors :
          (\A b \in Actors : login'[b] = NoLogIn) =>
             /\ pc'[a] # "panic"
             /\ pc[a] = "logout" /\ pc'[a] = "loggedOut" =>
                   /\ out'[a].err = ""
                   /\ LoggedOutOf(a, store', cache', sess')
             /\ /\ pc'[a] # pc[a]
                /\ pc'[a] \in {"logout", "loggedOut"}
                /\ logout'[a].sessionIDs = <<>>
                => /\ UNCHANGED <<store, cache>>
                   /\ out'[a].err = ""]_vars

\* Handler a returns from an exclusive LogIn.
Completes(a) == pc[a] = "unlock" /\ pc'[a] = "done" /\ login[a].exclusive
\* No handler is inside a call.
Quiet == \A a \in Actors : pc[a] \in {"idle", "done", "loggedOut", "panic"}

\* C26: when LogIn(user, TRUE) returns on session s, the user is attached to
\* s and to no other session that UserSessions lists for the user, s was
\* saved with the user and has a new identifier, SaveSession was called three
\* times if the user had no other sessions (log-in, new id, reference under
\* the old id), and the keyed lock that LogIn took is released: once every
\* handler has returned, no key is held.
C26_LogInExclusive ==
    /\ [][\A a \in Actors :
             Completes(a) =>
                LET s == out[a].session
                    user == login[a].user
                    listed == UserSessions(store', user)
                IN /\ sess'[s].user = user
                   /\ \A n \in 1..Len(listed) : listed[n] = sess'[s].id
                   /\ sess'[s].id = loc[a].id /\ loc[a].id # loc[a].oldID
                   /\ store'[loc[a].id].present /\ store'[loc[a].id].user = user
                   /\ logout[a].sessionIDs = <<>> =>
                         Saves(calls'[a]) =
                            <<Call("save", loc[a].oldID, Nil, "Set"),
                              Call("save", loc[a].id, Nil, "Set"),
                              Call("save", loc[a].oldID, loc[a].id, "Set")>>]_vars
    /\ [](Quiet /\ (\A a \in Actors : login[a] # NoLogIn => login[a].exclusive)
            => \A k \in Keys : HolderCount(k) = 0)


CompactIDs == 1..(MaxCompactSize + 1)
CompactConfigs ==
    {[MaxSessionCacheSize |-> n, SessionExpiry |-> Forever, SessionIDExpiry |-> 2,
      SessionIDGracePeriod |-> 1, SessionCacheExpiry |-> 2, AcceptRemoteIP |-> 1,
      AcceptChangingUserAgent |-> FALSE, Persistence |-> p, UserSessionsFunc |-> TRUE,
      mutexMaxCacheSize |-> DefaultMutexCacheSize]
     : n \in -1..MaxCompactSize, p \in {"reliable", "failing"}}

InitCompact ==
    /\ now = MaxTime
    /\ items = [k \in Keys |-> NoItem]
    /\ locks = [o \in Objs |-> 0]
    /\ lastAccess = [o \in Objs |-> 0]
    /\ coord = Selecting
    /\ purgeReq = 0
    /\ pc = [a \in Actors |-> "idle"]
    /\ key = [a \in Actors |-> 1]
    /\ ref = [a \in Actors |-> NoItem]
    /\ login = [a \in Actors |-> NoLogIn]
    /\ logout = [a \in Actors |-> NoLogOut]
    /\ cacheMu = Unlocked
    /\ sessMu = [o \in SObjs |-> Unlocked]
    /\ cfg \in CompactConfigs
    /\ \E S \in SUBSET CompactIDs, la \in [CompactIDs -> 0..MaxTime] :
          /\ \A i \in CompactIDs \ S : la[i] = 0
          /\ cfg.MaxSessionCacheSize >= 0 => Cardinality(S) <= cfg.MaxSessionCacheSize
          /\ cache = [i \in IDs |-> IF i \in S THEN i ELSE Nil]
          /\ sess = [o \in SObjs |-> IF o \in S THEN Session(o, 0, la[o], NoAddr, 0, Nil, "d1")
                                                ELSE Blank]
          /\ store = [i \in IDs |-> IF i \in S
                                       THEN Stored(Session(i, 0, la[i], NoAddr, 0, Nil, "d1"))
                                       ELSE NotStored]
    /\ nextID = Cardinality(IDs) + 1
    /\ timers = {}
    /\ timerDeletes = [i \in IDs |-> 0]
    /\ req = [a \in Actors |-> NoRequest]
    /\ ses = [a \in Actors |-> Nil]
    /\ loc = [a \in Actors |-> NoLocals]
    /\ out = [a \in Actors |-> NotReturned]
    /\ cookies = [a \in Actors |-> <<>>]
    /\ calls = [a \in Actors |-> <<>>]

\* "c.compact(requiredSpace)", as Get (requiredSpace 1) and Set (0 or 1) call
\* it; out[a].err is the error it returns.
Compaction(a, requiredSpace) ==
    /\ pc[a] = "idle"
    /\ \E c \in compact(CS0(a), sess, requiredSpace) :
          /\ cache' = c.cache
          /\ store' = c.store
          /\ calls' = [calls EXCEPT ![a] = c.calls]
          /\ out' = [out EXCEPT ![a] = Returned(Nil, c.err)]
    /\ sess' = CollectS(sess, cache', ses, out')
    /\ pc' = [pc EXCEPT ![a] = "done"]
    /\ UNCHANGED <<now, key, ref, cfg, nextID, timers, timerDeletes, req, ses, loc, cookies>>
    /\ UNCHANGED mvars
    /\ UNCHANGED uvars

\* One goroutine compacts the cache it finds.
NextCompact == \E a \in Writers, requiredSpace \in {0, 1} : Compaction(a, requiredSpace)

SpecCompact == InitCompact /\ [][NextCompact]_vars

\* ------------------------------------------------ claims on the eviction
\* The sessions a step takes out of the cache, those it leaves, and those
\* that had not been accessed for SessionCacheExpiry before it.
Evicted == {i \in IDs : cache[i] # Nil /\ cache'[i] = Nil}
Remaining == {i \in IDs : cache[i] # Nil /\ cache'[i] # Nil}
IdleIDs == {i \in IDs : cache[i] # Nil /\ now - sess[cache[i]].lastAccess > SessionCacheExpiry}
\* Every evicted session was saved by the compaction, as it was in the cache,
\* and the compaction saved nothing else.
SavedFirst(a) ==
    /\ \A i \in Evicted :
          /\ \E n \in 1..Len(calls'[a]) : calls'[a][n] = Call("save", i, Nil, "compact")
          /\ store'[i] = Stored(sess[cache[i]])
    /\ Len(SelectSeq(calls'[a], LAMBDA c : c.err = "")) = Cardinality(Evicted)
    /\ \A n \in 1..Len(calls'[a]) : calls'[a][n].op = "save" /\ calls'[a][n].from = "compact"
\* The second pass took the oldest sessions.
OldestFirst ==
    \A e \in Evicted \ IdleIDs, k \in Remaining :
       sess[cache[e]].lastAccess <= sess[cache[k]].lastAccess
\* What a compaction that ran to its end has evicted.
EvictionPolicy(requiredSpace) ==
    /\ IdleIDs \subseteq Evicted
    /\ IF MaxSessionCacheSize > 0
          /\ Cardinality({i \in IDs : cache[i] # Nil} \ IdleIDs) + requiredSpace
                > MaxSessionCacheSize
          THEN /\ Cardinality(Remaining) + requiredSpace = MaxSessionCacheSize
               /\ OldestFirst
          ELSE Evicted = IdleIDs
\* What a compaction has evicted that stopped at a SaveSession that failed:
\* the session of that call and those not visited yet are still cached.
EvictionStopped(a, requiredSpace) ==
    /\ Last(calls'[a]).err # ""
    /\ cache'[Last(calls'[a]).id] # Nil
    /\ \/ /\ Evicted \subseteq IdleIDs
          /\ Last(calls'[a]).id \in IdleIDs
       \/ /\ IdleIDs \subseteq Evicted
          /\ MaxSessionCacheSize > 0
          /\ Cardinality(Remaining) + requiredSpace > MaxSessionCacheSize
          /\ OldestFirst
          /\ \A k \in Remaining :
                sess[cache[Last(calls'[a]).id]].lastAccess <= sess[cache[k]].lastAccess

\* C32 (as stated): a compaction evicts every session not accessed for
\* SessionCacheExpiry, then, with MaxSessionCacheSize > 0, the oldest of the
\* others while size + requiredSpace > MaxSessionCacheSize; it saves every
\* session it evicts and evicts no other.
C32_EvictionPolicy ==
    [][\A a \in Actors, requiredSpace \in {0, 1} :
          Compaction(a, requiredSpace) => SavedFirst(a) /\ EvictionPolicy(requiredSpace)]_vars
\* C32 (amended): the same for a compaction whose SaveSession calls all
\* succeed; a compaction stops at the first SaveSession that fails, and then
\* the session of that call and the sessions it had still to evict stay.
C32_EvictionUnlessError ==
    [][\A a \in Actors, requiredSpace \in {0, 1} :
          Compaction(a, requiredSpace) =>
             /\ SavedFirst(a)
             /\ IF out'[a].err = "" THEN EvictionPolicy(requiredSpace)
                                    ELSE EvictionStopped(a, requiredSpace)]_vars
C32_Witness ==
    \E a \in Actors, k \in CompactIDs :
       /\ pc[a] = "done" /\ out[a].err = ""
       /\ MaxSessionCacheSize > 1
       /\ Len(calls[a]) = 1 /\ calls[a][1].id # k
       /\ NumCached(cache) = MaxSessionCacheSize - 1 /\ cache[k] # Nil
       /\ store[calls[a][1].id].lastAccess < sess[cache[k]].lastAccess
       /\ now - store[calls[a][1].id].lastAccess <= SessionCacheExpiry

\* C36: right after RegenerateID the reference session under the old id, as
\* saved and as cached, refers to the new id, carries no data and has
\* lastAccess = now - SessionIDExpiry.
ShadowFields(v, a) ==
    /\ v.referenceID = loc[a].id
    /\ v.data = "nil"
    /\ v.lastAccess = now - SessionIDExpiry
C36_ShadowFields ==
    [][\A a \in Actors :
          Regen2(a) =>
             /\ store'[loc[a].oldID].present
             /\ ShadowFields(store'[loc[a].oldID], a)
             /\ cache'[loc[a].oldID] # Nil => ShadowFields(sess'[cache'[loc[a].oldID]], a)]_vars


\* --------------------------------------------- claims on the registry purge
\* C37: after a purge no entry with count 0 that has been idle for longer
\* than mutexStaleMutexes is in the map, and if the map was larger than
\* mutexMaxCacheSize, it is no larger now or every entry left is locked.
C37_PurgeEffect ==
    [][(TimerPurge \/ SizePurge) =>
          /\ \A k \in Keys :
                items'[k] # NoItem =>
                   ~(locks'[items'[k]] = 0 /\ now - lastAccess'[items'[k]] > mutexStaleMutexes)
          /\ Size(items) > mutexMaxCacheSize =>
                \/ Size(items') <= mutexMaxCacheSize
                \/ \A k \in Keys : items'[k] # NoItem => locks'[items'[k]] > 0]_vars
\* A goroutine has locked and unlocked key 2, whose entry is gone before
\* anything is stale; the entry of key 1 is locked and still there.
C37_Witness ==
    /\ now = 0
    /\ \E a \in Actors : pc[a] = "idle" /\ key[a] = 2
    /\ items[2] = NoItem
    /\ items[1] # NoItem /\ locks[items[1]] > 0
    /\ purgeReq = 0

\* ------------------------------------------------ a chain of rotations
\* The process restarted right after a rotation of id 1 to id 2 at time 0:
\* the store holds the reference session under 1 and the primary under 2,
\* both within the grace period.  The handlers call Start, LogIn and LogOut
\* as in SpecUser; a LogIn rotates the session it is called on.
InitShadow ==
    /\ InitMutexes
    /\ cfg \in {c \in Configs : /\ c.SessionExpiry = Forever
                                /\ c.mutexMaxCacheSize = DefaultMutexCacheSize
                                /\ c.MaxSessionCacheSize \in {-1, 0}
                                /\ c.UserSessionsFunc
                                /\ c.Persistence = "reliable"
                                /\ c.AcceptRemoteIP = 1}
    /\ sess = [o \in SObjs |-> Blank]
    /\ cache = [i \in IDs |-> Nil]
    /\ store = [i \in IDs |-> IF i = 1 THEN StoredShadow(0, 2)
                              ELSE IF i = 2 THEN StoredPrimary(0, "d2")
                              ELSE NotStored]
    /\ nextID = 3
    /\ timers = {}
    /\ timerDeletes = [i \in IDs |-> 0]
    /\ req = [a \in Actors |-> NoRequest]
    /\ ses = [a \in Actors |-> Nil]
    /\ loc = [a \in Actors |-> [oldID |-> Nil, id |-> Nil]]
    /\ out = [a \in Actors |-> NotReturned]
    /\ cookies = [a \in Actors |-> <<>>]
    /\ calls = [a \in Actors |-> <<>>]

SpecShadow == InitShadow /\ [][NextUser]_vars

\* C38: whatever rotations have taken place, a session that Start returns has
\* an empty referenceID.
C38_NeverShadow ==
    \A a \in Actors :
       (pc[a] \in {"unlock", "done"} /\ out[a].session # Nil)
          => sess[out[a].session].referenceID = Nil

\* ------------------------------------------------- the end of a session
\* Session.Destroy(response, request) on a session that Get returned:
\* "sessions.Delete(s.id)" and, if that succeeds, the cookie of the response
\* is the deleted one.  The handler does not use the session after the call,
\* as the comment of Destroy asks.
Destroy(a) ==
    /\ pc[a] = "idle"
    /\ ses[a] # Nil
    /\ loc' = Started(loc, a, [oldID |-> Nil, id |-> sess[ses[a]].id], NoLocals)
    /\ \E c \in CacheDelete(CS0(a), sess[ses[a]].id) :
          /\ cache' = c.cache
          /\ store' = c.store
          /\ calls' = Started(calls, a, c.calls, <<>>)
          /\ out' = Started(out, a, Returned(Nil, c.err), NotReturned)
          /\ cookies' = [cookies EXCEPT ![a] = IF c.err = "" THEN <<DeletedCookie>> ELSE <<>>]
    /\ ses' = [ses EXCEPT ![a] = Nil]
    /\ sess' = CollectS(sess, cache', ses', out')
    /\ UNCHANGED <<now, pc, key, ref, cfg, nextID, timers, timerDeletes, req>>
    /\ UNCHANGED mvars
    /\ UNCHANGED uvars

\* Handlers that hold the session of DataIDs, change its data and destroy it.
NextDestroy ==
    \/ \E a \in Actors, id \in DataIDs : Get(a, id)
    \/ \E a \in Actors, d \in DataValues : SessionSet(a, d)
    \/ \E a \in Actors : SessionDelete(a)
    \/ \E a \in Actors : Destroy(a)

SpecDestroy == InitData /\ [][NextDestroy]_vars

\* C39: once a session was destroyed, the persistence layer holds no session
\* under its id, whatever the handlers that still hold the session call.
C39_StaysDestroyed ==
    [][\A k \in DataIDs : ~store[k].present => ~store'[k].present]_vars

\* ------------------------------------------------ claims on the locks
\* C35: the map of the cache is written only under the write lock of the
\* cache: while a call of Get compacts the cache or inserts the session it
\* loaded, no other call of Get is between its load and its insertion.
C35_MapWritesExclusive ==
    [][\A a \in Actors :
          (GetCompact(a) \/ GetInsert(a)) => \A b \in Actors \ {a} : ~Reading(b)]_vars

\* The handlers that are going to call Unlock(k): those in Lock(k) that the
\* coordinator has counted, and those that hold k until their deferred
\* Unlock runs.
Unlockers(k) ==
    {a \in Actors : /\ key[a] = k
                    /\ pc[a] \in {"getItem", "recv", "held", "check", "regen1", "regen2",
                                  "follow", "touch", "create", "unlock"}}
\* C34: the locks are taken in the order keyed lock, lock of the cache, lock
\* of the session, and no handler holds two keyed locks, so no interleaving
\* of Start, LogIn and LogOut reaches a deadlock: a key that is locked has a
\* handler that is going to unlock it, and no Lock(k) waits for ever.
C34_NoDeadlock ==
    \A k \in Keys : HolderCount(k) > 0 => Unlockers(k) # {}

\* ------------------------------------------------ the locks of the cache
\* The calls of the cache with the locks they take, one step for every
\* acquisition.  sync.RWMutex: Lock waits until nobody holds the mutex, RLock
\* until no writer holds it; neither is reentrant.
CanLock(m) == m.w = Nil /\ m.r = {}
CanRLock(m) == m.w = Nil
\* The persistence layer keeps the sessions as they are ("reliable"), or its
\* SaveSession serializes the session with GobEncode or MarshalJSON, as the
\* comment of PersistenceLayer.SaveSession proposes ("encoding"); both begin
\* with "s.RLock()".
Encodes == cfg.Persistence = "encoding"
LockConfigs ==
    {[MaxSessionCacheSize |-> n, SessionExpiry |-> Forever, SessionIDExpiry |-> 2,
      SessionIDGracePeriod |-> 1, SessionCacheExpiry |-> 2, AcceptRemoteIP |-> 1,
      AcceptChangingUserAgent |-> FALSE, Persistence |-> p, UserSessionsFunc |-> TRUE,
      mutexMaxCacheSize |-> DefaultMutexCacheSize]
     : n \in CacheSizes \cup {0}, p \in {"reliable", "encoding"}}
\* compact takes the read lock of every cached session in turn, and so do the
\* encoders for the sessions it saves.
CompactCanRLock == \A i \in IDs : cache[i] # Nil => CanRLock(sessMu[cache[i]])

\* As InitCache, with either kind of persistence layer.
InitLocks ==
    /\ now \in {0, MaxTime}
    /\ items = [k \in Keys |-> NoItem]
    /\ locks = [o \in Objs |-> 0]
    /\ lastAccess = [o \in Objs |-> 0]
    /\ coord = Selecting
    /\ purgeReq = 0
    /\ pc = [a \in Actors |-> "idle"]
    /\ key = [a \in Actors |-> 1]
    /\ ref = [a \in Actors |-> NoItem]
    /\ login = [a \in Actors |-> NoLogIn]
    /\ logout = [a \in Actors |-> NoLogOut]
    /\ cacheMu = Unlocked
    /\ sessMu = [o \in SObjs |-> Unlocked]
    /\ cfg \in LockConfigs
    /\ sess = [o \in SObjs |-> Blank]
    /\ cache = [i \in IDs |-> Nil]
    /\ store = [i \in IDs |-> IF i \in CachedIDs
                                  THEN Stored(Session(Nil, 0, 0, NoAddr, 0, Nil, "d1"))
                                  ELSE NotStored]
    /\ nextID = 3
    /\ timers = {}
    /\ timerDeletes = [i \in IDs |-> 0]
    /\ req = [a \in Actors |-> NoRequest]
    /\ ses = [a \in Actors |-> Nil]
    /\ loc = [a \in Actors |-> NoLocals]
    /\ out = [a \in Actors |-> NotReturned]
    /\ cookies = [a \in Actors |-> <<>>]
    /\ calls = [a \in Actors |-> <<>>]

\* cache.Get(id): "c.RLock()"; the deferred RUnlock runs when Get returns.
GetRLock(a, id) ==
    /\ pc[a] = "idle"
    /\ CanRLock(cacheMu)
    /\ cacheMu' = [cacheMu EXCEPT !.r = @ \cup {a}]
    /\ loc' = Started(loc, a, [oldID |-> Nil, id |-> id], NoLocals)
    /\ calls' = Started(calls, a, <<>>, <<>>)
    /\ out' = Started(out, a, NotReturned, NotReturned)
    /\ sess' = CollectS(sess, cache, ses, out')
    /\ pc' = [pc EXCEPT ![a] = "getLookup"]
    /\ UNCHANGED <<now, key, ref, cfg, cache, store, nextID, timers, timerDeletes, req, ses,
                   cookies, login, logout, sessMu>>
    /\ UNCHANGED mvars

\* The lookup and, on a miss, LoadSession.
GetLookup(a) ==
    /\ pc[a] = "getLookup"
    /\ IF cache[loc[a].id] # Nil
          THEN /\ ses' = [ses EXCEPT ![a] = cache[loc[a].id]]
               /\ out' = [out EXCEPT ![a] = Returned(cache[loc[a].id], "")]
               /\ sess' = CollectS(sess, cache, ses', out')
               /\ cacheMu' = [cacheMu EXCEPT !.r = @ \ {a}]
               /\ pc' = [pc EXCEPT ![a] = "idle"]
               /\ calls' = calls
          ELSE \E c1 \in LoadSession(CS(a), loc[a].id) :
               /\ calls' = [calls EXCEPT ![a] = c1.calls]
               /\ IF c1.err # "" \/ ~store[loc[a].id].present
                     THEN /\ ses' = [ses EXCEPT ![a] = Nil]
                          /\ out' = [out EXCEPT ![a] = Returned(Nil, c1.err)]
                          /\ sess' = CollectS(sess, cache, ses', out')
                          /\ cacheMu' = [cacheMu EXCEPT !.r = @ \ {a}]
                          /\ pc' = [pc EXCEPT ![a] = "idle"]
                     ELSE LET o == NewSess
                          IN /\ ses' = [ses EXCEPT ![a] = o]
                             /\ out' = out
                             /\ sess' = CollectS([sess EXCEPT ![o] = Loaded(store[loc[a].id])],
                                                 cache, ses', out)
                             /\ cacheMu' = cacheMu
                             /\ pc' = [pc EXCEPT ![a] = IF MaxSessionCacheSize # 0
                                                           THEN "getCompact" ELSE "getSessLock"]
    /\ UNCHANGED <<now, key, ref, cfg, cache, store, nextID, timers, timerDeletes, req, loc,
                   cookies, login, logout, sessMu>>
    /\ UNCHANGED mvars

\* "c.compact(1)" under the read lock of the cache.
GetMakeRoom(a) ==
    /\ CompactCanRLock
    /\ GetCompact(a)

\* "c.sessions[id] = session".
GetStore(a) ==
    /\ pc[a] = "getInsert"
    /\ cache' = Insert(CS(a), loc[a].id, ses[a]).cache
    /\ sess' = CollectS(sess, cache', ses, out)
    /\ pc' = [pc EXCEPT ![a] = "getSessLock"]
    /\ UNCHANGED <<now, key, ref, cfg, store, nextID, timers, timerDeletes, req, ses, loc,
                   out, cookies, calls>>
    /\ UNCHANGED mvars
    /\ UNCHANGED uvars

\* "session.Lock()" of Get, with the read lock of the cache held.
GetSessionLock(a) ==
    /\ pc[a] = "getSessLock"
    /\ CanLock(sessMu[ses[a]])
    /\ sessMu' = [sessMu EXCEPT ![ses[a]].w = a]
    /\ pc' = [pc EXCEPT ![a] = "getStoreID"]
    /\ UNCHANGED <<now, key, ref, cfg, sess, cache, store, nextID, timers, timerDeletes, req,
                   ses, loc, out, cookies, calls, login, logout, cacheMu>>
    /\ UNCHANGED mvars

\* "session.id = id", "session.Unlock()" and the return.
GetReturn(a) ==
    /\ pc[a] = "getStoreID"
    /\ out' = [out EXCEPT ![a] = Returned(ses[a], "")]
    /\ sess' = CollectS([sess EXCEPT ![ses[a]].id = loc[a].id], cache, ses, out')
    /\ sessMu' = [sessMu EXCEPT ![ses[a]] = Unlocked]
    /\ cacheMu' = [cacheMu EXCEPT !.r = @ \ {a}]
    /\ pc' = [pc EXCEPT ![a] = "idle"]
    /\ UNCHANGED <<now, key, ref, cfg, cache, store, nextID, timers, timerDeletes, req, ses,
                   loc, cookies, calls, login, logout>>
    /\ UNCHANGED mvars

\* cache.Set(session) with a session that Get returned: "c.Lock()".
SetLock(a) ==
    /\ pc[a] = "idle"
    /\ ses[a] # Nil
    /\ CanLock(cacheMu)
    /\ cacheMu' = [cacheMu EXCEPT !.w = a]
    /\ loc' = Started(loc, a, NoLocals, NoLocals)
    /\ calls' = Started(calls, a, <<>>, <<>>)
    /\ out' = Started(out, a, NotReturned, NotReturned)
    /\ sess' = CollectS(sess, cache, ses, out')
    /\ pc' = [pc EXCEPT ![a] = "setSessLock"]
    /\ UNCHANGED <<now, key, ref, cfg, cache, store, nextID, timers, timerDeletes, req, ses,
                   cookies, login, logout, sessMu>>
    /\ UNCHANGED mvars

\* The first "session.Lock()" of Set.
SetSessionLock(a) ==
    /\ pc[a] = "setSessLock"
    /\ CanLock(sessMu[ses[a]])
    /\ sessMu' = [sessMu EXCEPT ![ses[a]].w = a]
    /\ pc' = [pc EXCEPT ![a] = "setStamp"]
    /\ UNCHANGED <<now, key, ref, cfg, sess, cache, store, nextID, timers, timerDeletes, req,
                   ses, loc, out, cookies, calls, login, logout, cacheMu>>
    /\ UNCHANGED mvars

\* "session.lastAccess = time.Now()", "id := session.id", "session.Unlock()".
SetStamped(a) ==
    /\ pc[a] = "setStamp"
    /\ sess' = SetStamp(sess, ses[a])
    /\ loc' = [loc EXCEPT ![a].id = sess[ses[a]].id]
    /\ sessMu' = [sessMu EXCEPT ![ses[a]] = Unlocked]
    /\ pc' = [pc EXCEPT ![a] = "setCompact"]
    /\ UNCHANGED <<now, key, ref, cfg, cache, store, nextID, timers, timerDeletes, req, ses,
                   out, cookies, calls, login, logout, cacheMu>>
    /\ UNCHANGED mvars

\* "c.compact(requiredSpace)" and "c.sessions[id] = session".
SetMakeRoom(a) ==
    /\ pc[a] = "setCompact"
    /\ CompactCanRLock
    /\ \E c \in compact(CS(a), sess, IF cache[loc[a].id] = Nil THEN 1 ELSE 0) :
          /\ cache' = Insert(c, loc[a].id, ses[a]).cache
          /\ store' = c.store
          /\ calls' = [calls EXCEPT ![a] = c.calls]
    /\ sess' = CollectS(sess, cache', ses, out)
    /\ pc' = [pc EXCEPT ![a] = "setSaveLock"]
    /\ UNCHANGED <<now, key, ref, cfg, nextID, timers, timerDeletes, req, ses, loc, out,
                   cookies>>
    /\ UNCHANGED mvars
    /\ UNCHANGED uvars

\* The second "session.Lock()" of Set; its Unlock is deferred.
SetSaveLock(a) ==
    /\ pc[a] = "setSaveLock"
    /\ CanLock(sessMu[ses[a]])
    /\ sessMu' = [sessMu EXCEPT ![ses[a]].w = a]
    /\ pc' = [pc EXCEPT ![a] = "setSave"]
    /\ UNCHANGED <<now, key, ref, cfg, sess, cache, store, nextID, timers, timerDeletes, req,
                   ses, loc, out, cookies, calls, login, logout, cacheMu>>
    /\ UNCHANGED mvars

\* "Persistence.SaveSession(id, session)", which returns once the encoder has
\* taken the read lock of the session, and the return of Set.
SetSave(a) ==
    /\ pc[a] = "setSave"
    /\ Encodes => CanRLock(sessMu[ses[a]])
    /\ \E c \in SaveSession(CS(a), sess, loc[a].id, ses[a], "Set") :
          /\ store' = c.store
          /\ calls' = [calls EXCEPT ![a] = c.calls]
    /\ out' = [out EXCEPT ![a] = Returned(Nil, "")]
    /\ sess' = CollectS(sess, cache, ses, out')
    /\ sessMu' = [sessMu EXCEPT ![ses[a]] = Unlocked]
    /\ cacheMu' = Unlocked
    /\ pc' = [pc EXCEPT ![a] = "idle"]
    /\ UNCHANGED <<now, key, ref, cfg, cache, nextID, timers, timerDeletes, req, ses, loc,
                   cookies, login, logout>>
    /\ UNCHANGED mvars

\* PurgeSessions(): under the write lock of the cache every cached session
\* is saved, errors are ignored, and the map is replaced by an empty one.
RECURSIVE PurgeSaves(_, _, _)
PurgeSaves(order, cs, h) ==
    IF order = <<>> THEN {cs}
    ELSE UNION {PurgeSaves(Tail(order), c, h)
                : c \in SaveSession(cs, h, Head(order), cs.cache[Head(order)], "PurgeSessions")}
PurgeSessions(a) ==
    /\ pc[a] = "idle"
    /\ CanLock(cacheMu)
    /\ Encodes => CompactCanRLock
    /\ loc' = Started(loc, a, NoLocals, NoLocals)
    /\ \E order \in Orders(Cached(CS(a))) : \E c \in PurgeSaves(order, CS0(a), sess) :
          /\ store' = c.store
          /\ calls' = Started(calls, a, c.calls, <<>>)
    /\ cache' = [i \in IDs |-> Nil]
    /\ out' = Started(out, a, NotReturned, NotReturned)
    /\ sess' = CollectS(sess, cache', ses, out')
    /\ UNCHANGED <<now, pc, key, ref, cfg, nextID, timers, timerDeletes, req, ses, cookies>>
    /\ UNCHANGED mvars
    /\ UNCHANGED uvars

NextLocks ==
    \/ \E a \in Actors, id \in DataIDs : GetRLock(a, id)
    \/ \E a \in Actors : GetLookup(a)
    \/ \E a \in Actors : GetMakeRoom(a)
    \/ \E a \in Actors : GetStore(a)
    \/ \E a \in Actors : GetSessionLock(a)
    \/ \E a \in Actors : GetReturn(a)
    \/ \E a \in Actors : ConcurrentMapWrites(a)
    \/ \E a \in Actors : SetLock(a)
    \/ \E a \in Actors : SetSessionLock(a)
    \/ \E a \in Actors : SetStamped(a)
    \/ \E a \in Actors : SetMakeRoom(a)
    \/ \E a \in Actors : SetSaveLock(a)
    \/ \E a \in Actors : SetSave(a)
    \/ \E a \in Writers, id \in DataIDs : Delete(a, id)
    \/ \E a \in Writers : PurgeSessions(a)

SpecLocks == InitLocks /\ [][NextLocks]_vars

\* C33: in no call of the cache does a goroutine take the lock of a session,
\* for reading or for writing, while it holds the lock of the cache.
C33_NoSessionLockUnderCacheLock ==
    [][\A a \in Actors, o \in SObjs :
          \/ sessMu'[o].w = a /\ sessMu[o].w # a
          \/ a \in sessMu'[o].r \ sessMu[o].r
          => cacheMu.w # a /\ a \notin cacheMu.r]_vars

\* C40: cache.Set always completes with a persistence layer that serializes
\* the session with the encoders of the package: when Set calls SaveSession,
\* the read lock that the encoder takes is not blocked by a write lock of the
\* goroutine that is making the call.
C40_SetCompletes ==
    \A a \in Actors : (pc[a] = "setSave" /\ Encodes) => sessMu[ses[a]].w # a

====
